---------------------------- MODULE Spec2Model ----------------------------
(***************************************************************************)
(* Kuroukai API: the admin session store (src/middleware/adminAuth.js) and *)
(* the admin router with its guard (routes/adminRoutes.js: the module that *)
(* requires '../middleware/adminAuth' and defines requireAuthOrRedirect).  *)
(*                                                                         *)
(* Every handler of the store is synchronous JavaScript: between its first *)
(* and its last access to the `sessions` Map there is no await, callback   *)
(* or timer, so Node's run-to-completion event loop executes it as one     *)
(* step.  One action of the model is therefore one whole handler run.      *)
(* Time is the process clock in milliseconds (Date.now()).                 *)
(*                                                                         *)
(* Further down: the access-key store (SpecKeys; utils/keyUtils.js and the *)
(* key service) and the client-origin resolver of utils/keyUtils.js        *)
(* (SpecIp over whole requests, SpecCandidate over single candidates).     *)
(* Each specification leaves the state of the others idle.                 *)
(***************************************************************************)
EXTENDS Integers, Sequences, FiniteSets, TLC

(***************************************************************************)
(* Bounds of the model.                                                    *)
(***************************************************************************)
\* how many distinct tokens the random source can hand out in one run
MaxTokens == 2
\* the clock is followed through one whole TTL and MaxSlack ms past it
MaxSlack == 1
\* how many requests may be received and not yet handled (SpecConc)
MaxInflight == 2

(***************************************************************************)
(* Program constants.                                                      *)
(***************************************************************************)
\* adminAuth.js:100  sessionAge > 24 * 60 * 60 * 1000
SESSION_TTL_MS == 24 * 60 * 60 * 1000
\* adminAuth.js:63   maxAge of the admin_session cookie
COOKIE_MAX_AGE_MS == 24 * 60 * 60 * 1000
\* adminAuth.js:12   process.env.ADMIN_USERNAME || 'admin'
ADMIN_USERNAME == "admin"
\* adminAuth.js:14   process.env.ADMIN_PASSWORD || ... || 'admin123'
ADMIN_PASSWORD == "admin123"

\* JavaScript's undefined (an absent cookie, header or body field)
Undefined == "<undefined>"
\* JavaScript truthiness of a string-or-undefined value: undefined and the
\* empty string are falsy (adminAuth.js:31, 82, 118; adminRoutes.js:441)
Truthy(v) == v # Undefined /\ v # ""

MaxNow == SESSION_TTL_MS + MaxSlack
\* the clock advances by a millisecond or by a whole TTL
TickSteps == {1, SESSION_TTL_MS}

\* the values crypto.randomBytes(32).toString('hex') can take in one run
Tokens == {"tok" \o ToString(i) : i \in 1..MaxTokens}
\* what a client may send as admin_session cookie or x-admin-session header
TokenInputs == Tokens \cup {Undefined, ""}
Usernames == {Undefined, "admin", "root"}
Passwords == {Undefined, "admin123", "letmein"}
\* the clients that log in: req.ip and req.get('User-Agent') of their requests
Clients == {[ip |-> "203.0.113.5", userAgent |-> "curl/8"],
            [ip |-> "10.0.0.1", userAgent |-> "Mozilla/5"]}

VARIABLES
    sessions,     \* adminAuth.js:8  the Map token -> sessionData, in insertion order
    now,          \* the process clock, ms
    lifecycle,    \* history: token -> "unissued", "live" (issued by authenticate),
                  \* "evicted" (by requireAuth), "loggedOut" or "cleared"
    undisturbed,  \* history: token -> the ip and userAgent its authenticate was given,
                  \* for the tokens issued since the last clock advance, logout or clearAll
    last,         \* the response of the latest step: handler, status, message
    inflight,     \* SpecConc: per kind of request, how many are received and not
                  \* yet handled
    keys,         \* the key records the persistence layer holds, in insertion order
    keyCount,     \* how many key ids generateKey has handed out
    tz,           \* the time zone the process runs in (what Date's local time uses)
    requested,    \* history: key id -> the ttl its creation asked for, and when
    keyLast,      \* the outcome of the latest key-store step
    ipReq,        \* the request handed to getClientIp and getIpVariants
    ipRes         \* what they returned for it

sessionVars == <<sessions, lifecycle, undisturbed, last, inflight>>

keyVars == <<keys, keyCount, tz, requested, keyLast>>

ipVars == <<ipReq, ipRes>>

vars == <<sessions, now, lifecycle, undisturbed, last, inflight,
          keys, keyCount, tz, requested, keyLast, ipReq, ipRes>>

\* the key store has issued nothing (the state the session store's
\* specifications leave it in)
KeyStoreIdle ==
    /\ keys = << >>
    /\ keyCount = 0
    /\ tz = "UTC"
    /\ requested = << >>
    /\ keyLast = [op |-> "none", id |-> "<undefined>", outcome |-> ""]

\* no request is being resolved
ResolverIdle ==
    /\ ipReq = [op |-> "none"]
    /\ ipRes = [op |-> "none"]

\* the value `sessions.get` yields, as a record, when there is no session
NoSession == [id |-> Undefined, createdAt |-> 0, ip |-> Undefined, userAgent |-> Undefined]

(***************************************************************************)
(* The JavaScript Map `sessions`: a sequence of entries in insertion order *)
(***************************************************************************)
MapHas(m, k) == \E i \in DOMAIN m : m[i].key = k

MapGet(m, k) ==
    IF MapHas(m, k) THEN m[CHOOSE i \in DOMAIN m : m[i].key = k].value ELSE NoSession

MapSetLosing(m, k, v) == <<[key |-> k, value |-> v]>>

MapSet(m, k, v) ==
    IF MapHas(m, k)
    THEN [i \in DOMAIN m |-> IF m[i].key = k THEN [key |-> k, value |-> v] ELSE m[i]]
    ELSE Append(m, [key |-> k, value |-> v])

MapDelete(m, k) == SelectSeq(m, LAMBDA e : e.key # k)

MapClear(m) == << >>

MapSize(m) == Len(m)

MapValues(m) == [i \in DOMAIN m |-> m[i].value]

MapKeys(m) == {m[i].key : i \in DOMAIN m}


(***************************************************************************)
(* Responses.  status 0 stands for "no response sent": the middleware      *)
(* called next().                                                          *)
(***************************************************************************)
Response(op, status, message) ==
    [op |-> op, status |-> status, message |-> message,
     route |-> Undefined, token |-> Undefined, username |-> Undefined, password |-> Undefined,
     ip |-> Undefined, userAgent |-> Undefined,
     sessionToken |-> Undefined, setCookie |-> Undefined, cookieMaxAge |-> 0,
     adminSession |-> NoSession, list |-> << >>, count |-> 0]

(***************************************************************************)
(* AdminAuth.generateSession: 32 bytes of a cryptographic random source.   *)
(* A 256-bit random value repeats with probability about 2^-256 per pair;  *)
(* the model takes the random source as never repeating a value.           *)
(***************************************************************************)
GenerateSessionRepeating == Tokens

GenerateSession == {t \in Tokens : lifecycle[t] = "unissued"}

(***************************************************************************)
(* AdminAuth.authenticate(req, res): body.username, body.password, req.ip, *)
(* req.get('User-Agent'); `tok` is the value generateSession returns and   *)
(* `t` the value of new Date().                                            *)
(***************************************************************************)
AuthenticateEitherCredential(m, username, password, ip, userAgent, tok, t) ==
    LET in == [Response("authenticate", 0, "") EXCEPT
                  !.username = username, !.password = password,
                  !.ip = ip, !.userAgent = userAgent]
    IN  IF ~Truthy(username) \/ ~Truthy(password)
        THEN [sessions |-> m,
              res |-> [in EXCEPT !.status = 400,
                                 !.message = "Username and password are required"]]
        ELSE IF ~(username = ADMIN_USERNAME \/ password = ADMIN_PASSWORD)
        THEN [sessions |-> m,
              res |-> [in EXCEPT !.status = 401, !.message = "Invalid credentials"]]
        ELSE [sessions |-> MapSet(m, tok, [id |-> tok, createdAt |-> t,
                                           ip |-> ip, userAgent |-> userAgent]),
              res |-> [in EXCEPT !.status = 200,
                                 !.message = "Authentication successful",
                                 !.sessionToken = tok, !.setCookie = tok,
                                 !.cookieMaxAge = COOKIE_MAX_AGE_MS]]

AuthenticateSwapAudit(m, username, password, ip, userAgent, tok, t) ==
    LET in == [Response("authenticate", 0, "") EXCEPT
                  !.username = username, !.password = password,
                  !.ip = ip, !.userAgent = userAgent]
    IN  IF ~Truthy(username) \/ ~Truthy(password)
        THEN [sessions |-> m,
              res |-> [in EXCEPT !.status = 400,
                                 !.message = "Username and password are required"]]
        ELSE IF ~(username = ADMIN_USERNAME /\ password = ADMIN_PASSWORD)
        THEN [sessions |-> m,
              res |-> [in EXCEPT !.status = 401, !.message = "Invalid credentials"]]
        ELSE [sessions |-> MapSet(m, tok, [id |-> tok, createdAt |-> t,
                                           ip |-> userAgent, userAgent |-> ip]),
              res |-> [in EXCEPT !.status = 200,
                                 !.message = "Authentication successful",
                                 !.sessionToken = tok, !.setCookie = tok,
                                 !.cookieMaxAge = COOKIE_MAX_AGE_MS]]

AuthenticateSingleSession(m, username, password, ip, userAgent, tok, t) ==
    LET in == [Response("authenticate", 0, "") EXCEPT
                  !.username = username, !.password = password,
                  !.ip = ip, !.userAgent = userAgent]
    IN  IF ~Truthy(username) \/ ~Truthy(password)
        THEN [sessions |-> m,
              res |-> [in EXCEPT !.status = 400,
                                 !.message = "Username and password are required"]]
        ELSE IF ~(username = ADMIN_USERNAME /\ password = ADMIN_PASSWORD)
        THEN [sessions |-> m,
              res |-> [in EXCEPT !.status = 401, !.message = "Invalid credentials"]]
        ELSE [sessions |-> MapSet(MapClear(m), tok, [id |-> tok, createdAt |-> t,
                                                     ip |-> ip, userAgent |-> userAgent]),
              res |-> [in EXCEPT !.status = 200,
                                 !.message = "Authentication successful",
                                 !.sessionToken = tok, !.setCookie = tok,
                                 !.cookieMaxAge = COOKIE_MAX_AGE_MS]]

Authenticate(m, username, password, ip, userAgent, tok, t) ==
    LET in == [Response("authenticate", 0, "") EXCEPT
                  !.username = username, !.password = password,
                  !.ip = ip, !.userAgent = userAgent]
    IN  IF ~Truthy(username) \/ ~Truthy(password)
        THEN [sessions |-> m,
              res |-> [in EXCEPT !.status = 400,
                                 !.message = "Username and password are required"]]
        ELSE IF ~(username = ADMIN_USERNAME /\ password = ADMIN_PASSWORD)
        THEN [sessions |-> m,
              res |-> [in EXCEPT !.status = 401, !.message = "Invalid credentials"]]
        ELSE [sessions |-> MapSet(m, tok, [id |-> tok, createdAt |-> t,
                                           ip |-> ip, userAgent |-> userAgent]),
              res |-> [in EXCEPT !.status = 200,
                                 !.message = "Authentication successful",
                                 !.sessionToken = tok, !.setCookie = tok,
                                 !.cookieMaxAge = COOKIE_MAX_AGE_MS]]

RequireAuthAtTtl(m, cookie, header, t) ==
    LET sessionToken == IF Truthy(cookie) THEN cookie ELSE header
        in == [Response("requireAuth", 0, "") EXCEPT !.token = sessionToken]
        session == MapGet(m, sessionToken)
        sessionAge == t - session.createdAt
    IN  IF ~Truthy(sessionToken)
        THEN [sessions |-> m, next |-> FALSE,
              res |-> [in EXCEPT !.status = 401, !.message = "Authentication required"]]
        ELSE IF ~MapHas(m, sessionToken)
        THEN [sessions |-> m, next |-> FALSE,
              res |-> [in EXCEPT !.status = 401,
                                 !.message = "Invalid or expired session"]]
        ELSE IF sessionAge >= SESSION_TTL_MS
        THEN [sessions |-> MapDelete(m, sessionToken), next |-> FALSE,
              res |-> [in EXCEPT !.status = 401, !.message = "Session expired"]]
        ELSE [sessions |-> m, next |-> TRUE,
              res |-> [in EXCEPT !.adminSession = session]]

RequireAuthNoEvict(m, cookie, header, t) ==
    LET sessionToken == IF Truthy(cookie) THEN cookie ELSE header
        in == [Response("requireAuth", 0, "") EXCEPT !.token = sessionToken]
        session == MapGet(m, sessionToken)
        sessionAge == t - session.createdAt
    IN  IF ~Truthy(sessionToken)
        THEN [sessions |-> m, next |-> FALSE,
              res |-> [in EXCEPT !.status = 401, !.message = "Authentication required"]]
        ELSE IF ~MapHas(m, sessionToken)
        THEN [sessions |-> m, next |-> FALSE,
              res |-> [in EXCEPT !.status = 401,
                                 !.message = "Invalid or expired session"]]
        ELSE IF sessionAge > SESSION_TTL_MS
        THEN [sessions |-> m, next |-> FALSE,
              res |-> [in EXCEPT !.status = 401, !.message = "Session expired"]]
        ELSE [sessions |-> m, next |-> TRUE,
              res |-> [in EXCEPT !.adminSession = session]]

RequireAuthSweep(m, cookie, header, t) ==
    LET sessionToken == IF Truthy(cookie) THEN cookie ELSE header
        in == [Response("requireAuth", 0, "") EXCEPT !.token = sessionToken]
        session == MapGet(m, sessionToken)
        sessionAge == t - session.createdAt
    IN  IF ~Truthy(sessionToken)
        THEN [sessions |-> m, next |-> FALSE,
              res |-> [in EXCEPT !.status = 401, !.message = "Authentication required"]]
        ELSE IF ~MapHas(m, sessionToken)
        THEN [sessions |-> m, next |-> FALSE,
              res |-> [in EXCEPT !.status = 401,
                                 !.message = "Invalid or expired session"]]
        ELSE IF sessionAge > SESSION_TTL_MS
        THEN [sessions |-> SelectSeq(m, LAMBDA e : t - e.value.createdAt <= SESSION_TTL_MS),
              next |-> FALSE,
              res |-> [in EXCEPT !.status = 401, !.message = "Session expired"]]
        ELSE [sessions |-> m, next |-> TRUE,
              res |-> [in EXCEPT !.adminSession = session]]

RequireAuthHeaderFallback(m, cookie, header, t) ==
    LET sessionToken == IF Truthy(cookie) /\ (MapHas(m, cookie) \/ ~Truthy(header))
                        THEN cookie ELSE header
        in == [Response("requireAuth", 0, "") EXCEPT !.token = sessionToken]
        session == MapGet(m, sessionToken)
        sessionAge == t - session.createdAt
    IN  IF ~Truthy(sessionToken)
        THEN [sessions |-> m, next |-> FALSE,
              res |-> [in EXCEPT !.status = 401, !.message = "Authentication required"]]
        ELSE IF ~MapHas(m, sessionToken)
        THEN [sessions |-> m, next |-> FALSE,
              res |-> [in EXCEPT !.status = 401,
                                 !.message = "Invalid or expired session"]]
        ELSE IF sessionAge > SESSION_TTL_MS
        THEN [sessions |-> MapDelete(m, sessionToken), next |-> FALSE,
              res |-> [in EXCEPT !.status = 401, !.message = "Session expired"]]
        ELSE [sessions |-> m, next |-> TRUE,
              res |-> [in EXCEPT !.adminSession = session]]

RequireAuthExpiredUnknown(m, cookie, header, t) ==
    LET sessionToken == IF Truthy(cookie) THEN cookie ELSE header
        in == [Response("requireAuth", 0, "") EXCEPT !.token = sessionToken]
        session == MapGet(m, sessionToken)
        sessionAge == t - session.createdAt
    IN  IF ~Truthy(sessionToken)
        THEN [sessions |-> m, next |-> FALSE,
              res |-> [in EXCEPT !.status = 401, !.message = "Authentication required"]]
        ELSE IF ~MapHas(m, sessionToken) \/ sessionAge > SESSION_TTL_MS
        THEN [sessions |-> MapDelete(m, sessionToken), next |-> FALSE,
              res |-> [in EXCEPT !.status = 401, !.message = "Session expired"]]
        ELSE [sessions |-> m, next |-> TRUE,
              res |-> [in EXCEPT !.adminSession = session]]

RequireAuthRenewing(m, cookie, header, t) ==
    LET sessionToken == IF Truthy(cookie) THEN cookie ELSE header
        in == [Response("requireAuth", 0, "") EXCEPT !.token = sessionToken]
        session == MapGet(m, sessionToken)
        sessionAge == t - session.createdAt
    IN  IF ~Truthy(sessionToken)
        THEN [sessions |-> m, next |-> FALSE,
              res |-> [in EXCEPT !.status = 401, !.message = "Authentication required"]]
        ELSE IF ~MapHas(m, sessionToken)
        THEN [sessions |-> m, next |-> FALSE,
              res |-> [in EXCEPT !.status = 401,
                                 !.message = "Invalid or expired session"]]
        ELSE IF sessionAge > SESSION_TTL_MS
        THEN [sessions |-> MapDelete(m, sessionToken), next |-> FALSE,
              res |-> [in EXCEPT !.status = 401, !.message = "Session expired"]]
        ELSE [sessions |-> MapSet(m, sessionToken, [session EXCEPT !.createdAt = t]),
              next |-> TRUE,
              res |-> [in EXCEPT !.adminSession = session]]

(***************************************************************************)
(* AdminAuth.requireAuth(req, res, next): cookie is req.cookies            *)
(* .admin_session, header is req.headers['x-admin-session'], t is          *)
(* Date.now().  next |-> TRUE: next() was called with req.adminSession set.*)
(***************************************************************************)
RequireAuth(m, cookie, header, t) ==
    LET sessionToken == IF Truthy(cookie) THEN cookie ELSE header
        in == [Response("requireAuth", 0, "") EXCEPT !.token = sessionToken]
        session == MapGet(m, sessionToken)
        sessionAge == t - session.createdAt
    IN  IF ~Truthy(sessionToken)
        THEN [sessions |-> m, next |-> FALSE,
              res |-> [in EXCEPT !.status = 401, !.message = "Authentication required"]]
        ELSE IF ~MapHas(m, sessionToken)
        THEN [sessions |-> m, next |-> FALSE,
              res |-> [in EXCEPT !.status = 401,
                                 !.message = "Invalid or expired session"]]
        ELSE IF sessionAge > SESSION_TTL_MS
        THEN [sessions |-> MapDelete(m, sessionToken), next |-> FALSE,
              res |-> [in EXCEPT !.status = 401, !.message = "Session expired"]]
        ELSE [sessions |-> m, next |-> TRUE,
              res |-> [in EXCEPT !.adminSession = session]]

LogoutKeep(m, cookie) ==
    [sessions |-> m,
     res |-> [Response("logout", 200, "Logged out successfully") EXCEPT
                 !.token = cookie,
                 !.setCookie = IF Truthy(cookie) THEN "" ELSE Undefined]]

(***************************************************************************)
(* AdminAuth.logout(req, res): only the cookie names the session.          *)
(***************************************************************************)
Logout(m, cookie) ==
    [sessions |-> IF Truthy(cookie) THEN MapDelete(m, cookie) ELSE m,
     res |-> [Response("logout", 200, "Logged out successfully") EXCEPT
                 !.token = cookie,
                 !.setCookie = IF Truthy(cookie) THEN "" ELSE Undefined]]

(***************************************************************************)
(* AdminAuth.getSessionInfo, getActiveSessions, clearAllSessions           *)
(***************************************************************************)
GetSessionInfo(adminSession) ==
    [Response("getSessionInfo", 200, "") EXCEPT
        !.adminSession = [adminSession EXCEPT !.userAgent = Undefined]]

GetActiveSessions(m) ==
    LET activeSessions == [i \in DOMAIN MapValues(m) |->
                              [id |-> MapValues(m)[i].id,
                               createdAt |-> MapValues(m)[i].createdAt,
                               ip |-> MapValues(m)[i].ip,
                               userAgent |-> MapValues(m)[i].userAgent]]
    IN  [Response("getActiveSessions", 200, "") EXCEPT
            !.list = activeSessions, !.count = Len(activeSessions)]

ClearAllSessionsCountAfter(m) ==
    LET cleared == MapClear(m)
        count == MapSize(cleared)
    IN  [sessions |-> cleared,
         res |-> [Response("clearAllSessions", 200, "Cleared sessions") EXCEPT
                     !.count = count]]

ClearAllSessions(m) ==
    LET count == MapSize(m)
    IN  [sessions |-> MapClear(m),
         res |-> [Response("clearAllSessions", 200, "Cleared sessions") EXCEPT
                     !.count = count]]


(***************************************************************************)
(* adminRoutes.js: the router's guard and the protected routes behind it.  *)
(* acceptsJson is `req.xhr || Accept includes application/json`.           *)
(***************************************************************************)
ProtectedRoutes ==
    {"GET /", "GET /api/session", "GET /api/sessions", "DELETE /api/sessions"}

\* req.path.startsWith('/api')
PathStartsWithApi(route) == route # "GET /"

RequireAuthOrRedirect(route, cookie, acceptsJson) ==
    LET sessionToken == cookie
        wantsJson == PathStartsWithApi(route) \/ acceptsJson
        in == [Response("requireAuthOrRedirect", 0, "") EXCEPT
                  !.route = route, !.token = sessionToken]
    IN  IF ~Truthy(sessionToken)
        THEN IF wantsJson
             THEN [next |-> FALSE,
                   res |-> [in EXCEPT !.status = 401,
                                      !.message = "Authentication required"]]
             ELSE [next |-> FALSE,
                   res |-> [in EXCEPT !.status = 302, !.message = "/admin/login"]]
        ELSE [next |-> TRUE, res |-> in]

AdminRouteUnguarded(m, route, cookie, header, acceptsJson, t) ==
    LET gate == RequireAuthOrRedirect(route, cookie, acceptsJson)
        auth == RequireAuth(m, cookie, header, t)
        clear == ClearAllSessions(auth.sessions)
        unguarded == ClearAllSessions(m)
    IN  IF route = "DELETE /api/sessions"
        THEN [sessions |-> unguarded.sessions,
              res |-> [unguarded.res EXCEPT !.route = route, !.token = cookie]]
        ELSE IF ~gate.next
        THEN [sessions |-> m, res |-> gate.res]
        ELSE IF ~auth.next
        THEN [sessions |-> auth.sessions, res |-> [auth.res EXCEPT !.route = route]]
        ELSE CASE route = "GET /" ->
                    [sessions |-> auth.sessions,
                     res |-> [Response("getAdminDashboard", 200, "") EXCEPT
                                 !.route = route, !.token = auth.res.token]]
               [] route = "GET /api/session" ->
                    [sessions |-> auth.sessions,
                     res |-> [GetSessionInfo(auth.res.adminSession) EXCEPT
                                 !.route = route, !.token = auth.res.token]]
               [] route = "GET /api/sessions" ->
                    [sessions |-> auth.sessions,
                     res |-> [GetActiveSessions(auth.sessions) EXCEPT
                                 !.route = route, !.token = auth.res.token]]
               [] route = "DELETE /api/sessions" ->
                    [sessions |-> clear.sessions,
                     res |-> [clear.res EXCEPT
                                 !.route = route, !.token = auth.res.token]]

\* router.use('/', requireAuthOrRedirect) followed by the route's handler
AdminRoute(m, route, cookie, header, acceptsJson, t) ==
    LET gate == RequireAuthOrRedirect(route, cookie, acceptsJson)
        auth == RequireAuth(m, cookie, header, t)
        clear == ClearAllSessions(auth.sessions)
    IN  IF ~gate.next
        THEN [sessions |-> m, res |-> gate.res]
        ELSE IF ~auth.next
        THEN [sessions |-> auth.sessions, res |-> [auth.res EXCEPT !.route = route]]
        ELSE CASE route = "GET /" ->
                    [sessions |-> auth.sessions,
                     res |-> [Response("getAdminDashboard", 200, "") EXCEPT
                                 !.route = route, !.token = auth.res.token]]
               [] route = "GET /api/session" ->
                    [sessions |-> auth.sessions,
                     res |-> [GetSessionInfo(auth.res.adminSession) EXCEPT
                                 !.route = route, !.token = auth.res.token]]
               [] route = "GET /api/sessions" ->
                    [sessions |-> auth.sessions,
                     res |-> [GetActiveSessions(auth.sessions) EXCEPT
                                 !.route = route, !.token = auth.res.token]]
               [] route = "DELETE /api/sessions" ->
                    [sessions |-> clear.sessions,
                     res |-> [clear.res EXCEPT
                                 !.route = route, !.token = auth.res.token]]

(***************************************************************************)
(* Requests                                                                *)
(***************************************************************************)
Request(kind) ==
    [kind |-> kind, route |-> Undefined, cookie |-> Undefined, header |-> Undefined,
     acceptsJson |-> FALSE, username |-> Undefined, password |-> Undefined,
     ip |-> Undefined, userAgent |-> Undefined]

LoginRequests ==
    {[Request("login") EXCEPT !.username = u, !.password = p, !.ip = c.ip,
                               !.userAgent = c.userAgent] :
        u \in Usernames, p \in Passwords, c \in Clients}

LogoutRequests ==
    {[Request("logout") EXCEPT !.cookie = c] : c \in TokenInputs}

\* requireAuth mounted directly as a middleware (it is exported on its own)
RequireAuthRequests ==
    {[Request("requireAuth") EXCEPT !.cookie = c, !.header = h] :
        c \in TokenInputs, h \in TokenInputs}

\* A request to a protected route.  Neither the guard nor requireAuth ever
\* reads x-admin-session on this path (the guard returns when the cookie is
\* falsy, and `cookie || header` stops at a truthy cookie), and
\* `startsWith('/api') || req.xhr || ...` reads req.xhr and Accept only for a
\* path outside /api: the requests differ in what the handlers read.
AdminRouteRequests ==
    {req \in {[Request("admin") EXCEPT !.route = r, !.cookie = c,
                                        !.acceptsJson = a] :
                 r \in ProtectedRoutes, c \in TokenInputs, a \in BOOLEAN} :
        PathStartsWithApi(req.route) => ~req.acceptsJson}

(***************************************************************************)
(* The handlers' effect on the store, the clock and the history variables  *)
(***************************************************************************)
Brief(res) == [op |-> res.op, status |-> res.status, message |-> res.message]

Undisturbed(tok, req) ==
    [x \in DOMAIN undisturbed \cup {tok} |->
        IF x = tok THEN [ip |-> req.ip, userAgent |-> req.userAgent]
        ELSE undisturbed[x]]

Login(req, observed) ==
    \E tok \in GenerateSession \cup {Undefined} :
        LET r == Authenticate(sessions, req.username, req.password, req.ip,
                              req.userAgent, tok, now)
        IN  /\ (r.res.status = 200) <=> (tok # Undefined)
            /\ sessions' = r.sessions
            /\ last' = IF observed THEN Brief(r.res) ELSE last
            /\ lifecycle' = IF tok # Undefined
                            THEN [lifecycle EXCEPT ![tok] = "live"]
                            ELSE lifecycle
            /\ undisturbed' = IF tok # Undefined THEN Undisturbed(tok, req)
                              ELSE undisturbed
            /\ now' = now
            /\ UNCHANGED <<keyVars, ipVars>>

LogoutReq(req, observed) ==
    LET r == Logout(sessions, req.cookie)
    IN  /\ sessions' = r.sessions
        /\ last' = IF observed THEN Brief(r.res) ELSE last
        /\ lifecycle' = IF MapHas(sessions, req.cookie)
                        THEN [lifecycle EXCEPT ![req.cookie] = "loggedOut"]
                        ELSE lifecycle
        /\ undisturbed' = << >>
        /\ now' = now
        /\ UNCHANGED <<keyVars, ipVars>>

Evicted(res) ==
    IF res.op = "requireAuth" /\ res.message = "Session expired"
    THEN [lifecycle EXCEPT ![res.token] = "evicted"]
    ELSE lifecycle

RequireAuthReq(req, observed) ==
    LET r == RequireAuth(sessions, req.cookie, req.header, now)
    IN  /\ sessions' = r.sessions
        /\ last' = IF observed THEN Brief(r.res) ELSE last
        /\ lifecycle' = Evicted(r.res)
        /\ UNCHANGED <<now, undisturbed, keyVars, ipVars>>

AdminRouteReq(req, observed) ==
    LET r == AdminRoute(sessions, req.route, req.cookie, req.header,
                        req.acceptsJson, now)
    IN  /\ sessions' = r.sessions
        /\ last' = IF observed THEN Brief(r.res) ELSE last
        /\ lifecycle' = IF r.res.op = "clearAllSessions"
                        THEN [t \in Tokens |-> IF MapHas(sessions, t) THEN "cleared"
                                               ELSE lifecycle[t]]
                        ELSE Evicted(r.res)
        /\ undisturbed' = IF r.res.op = "clearAllSessions" THEN << >>
                          ELSE undisturbed
        /\ now' = now
        /\ UNCHANGED <<keyVars, ipVars>>

\* the process clock advances; no code of the store runs.  The clock is
\* followed over one whole TTL and then millisecond by millisecond.
Tick ==
    \E d \in TickSteps :
        /\ now + d <= MaxNow
        /\ d < SESSION_TTL_MS => now >= SESSION_TTL_MS
        /\ now' = now + d
        /\ last' = IF last.op = "unobserved" THEN last
                   ELSE Brief(Response("tick", 0, ""))
        /\ undisturbed' = << >>
        /\ UNCHANGED <<sessions, lifecycle, inflight, keyVars, ipVars>>

RequestKinds == {"login", "logout", "requireAuth", "admin"}

InflightCount == inflight["login"] + inflight["logout"] + inflight["requireAuth"]
                 + inflight["admin"]

Init ==
    /\ sessions = << >>
    /\ now = 0
    /\ lifecycle = [t \in Tokens |-> "unissued"]
    /\ undisturbed = << >>
    /\ last = Brief(Response("init", 0, ""))
    /\ inflight = [k \in RequestKinds |-> 0]
    /\ KeyStoreIdle
    /\ ResolverIdle

HandleLogin == \E req \in LoginRequests : Login(req, TRUE) /\ UNCHANGED inflight

HandleLogout == \E req \in LogoutRequests : LogoutReq(req, TRUE) /\ UNCHANGED inflight

HandleRequireAuth ==
    \E req \in RequireAuthRequests : RequireAuthReq(req, TRUE) /\ UNCHANGED inflight

HandleAdminRoute ==
    \E req \in AdminRouteRequests : AdminRouteReq(req, TRUE) /\ UNCHANGED inflight

Next ==
    \/ HandleLogin
    \/ HandleLogout
    \/ HandleRequireAuth
    \/ HandleAdminRoute
    \/ Tick

\* every request is handled as soon as it is received
Spec == Init /\ [][Next]_vars

(***************************************************************************)
(* Requests in flight.  Express receives requests concurrently; a received *)
(* request waits (body and cookie parsing, the event loop's queue) until   *)
(* its handler runs, and the handlers of the waiting requests run in any   *)
(* order, each to completion.  What a handler reads of its request and of  *)
(* the clock is drawn when it runs.                                        *)
(***************************************************************************)
InitConc ==
    /\ sessions = << >>
    /\ now = 0
    /\ lifecycle = [t \in Tokens |-> "unissued"]
    /\ undisturbed = << >>
    /\ last = Brief(Response("unobserved", 0, ""))
    /\ inflight = [k \in RequestKinds |-> 0]
    /\ KeyStoreIdle
    /\ ResolverIdle

Receive ==
    \E k \in RequestKinds :
        /\ InflightCount < MaxInflight
        /\ inflight' = [inflight EXCEPT ![k] = @ + 1]
        /\ UNCHANGED <<sessions, now, lifecycle, undisturbed, last, keyVars, ipVars>>

Done(k) ==
    /\ inflight[k] > 0
    /\ inflight' = [inflight EXCEPT ![k] = @ - 1]

\* the concurrent clients: one origin, either right or wrong credentials
ConcLoginRequests ==
    {req \in LoginRequests :
        /\ req.ip = "203.0.113.5"
        /\ req.username = ADMIN_USERNAME
        /\ req.password # Undefined}

ConcRequireAuthRequests == {req \in RequireAuthRequests : req.header = Undefined}

ConcAdminRouteRequests ==
    {req \in AdminRouteRequests :
        req.route \in {"GET /api/sessions", "DELETE /api/sessions"}}

RunLogin == \E req \in ConcLoginRequests : Login(req, FALSE) /\ Done("login")

RunLogout == \E req \in LogoutRequests : LogoutReq(req, FALSE) /\ Done("logout")

RunRequireAuth ==
    \E req \in ConcRequireAuthRequests :
        RequireAuthReq(req, FALSE) /\ Done("requireAuth")

RunAdminRoute ==
    \E req \in ConcAdminRouteRequests : AdminRouteReq(req, FALSE) /\ Done("admin")

NextConc ==
    \/ Receive
    \/ RunLogin
    \/ RunLogout
    \/ RunRequireAuth
    \/ RunAdminRoute
    \/ Tick

SpecConc == InitConc /\ [][NextConc]_vars

(***************************************************************************)
(* What the claims speak of                                                *)
(***************************************************************************)
StoreTokens == {sessions[i].key : i \in DOMAIN sessions}

Stored(t) ==
    CHOOSE v \in {sessions[i].value : i \in {j \in DOMAIN sessions :
                                                sessions[j].key = t}} : TRUE

Age(t) == now - Stored(t).createdAt

Without(m, t) == SelectSeq(m, LAMBDA e : e.key # t)

\* the token requireAuth takes from a request
Supplied(cookie, header) == IF Truthy(cookie) THEN cookie ELSE header

Unauthenticated(res) ==
    /\ res.status = 401
    /\ res.message \in {"Authentication required", "Invalid or expired session"}

Expired(res) == res.status = 401 /\ res.message = "Session expired"

ListedIds(res) == {res.list[i].id : i \in DOMAIN res.list}

Removed == {"evicted", "loggedOut", "cleared"}

\* C1: requireAuth decides in this order, for every request and every store
\* state: no token supplied -> Unauthenticated; token not in the store ->
\* Unauthenticated; token in the store and older than the 24 h TTL -> its
\* record (and only it) is removed and the outcome is Expired; otherwise, an
\* age of exactly the TTL included, the stored record is handed on and the
\* request proceeds with the store untouched.
C1_RequireAuthDecisionOrder ==
    \A c \in TokenInputs, h \in TokenInputs :
        LET tok == Supplied(c, h)
            r == RequireAuth(sessions, c, h, now)
        IN  IF ~Truthy(tok)
            THEN Unauthenticated(r.res) /\ ~r.next /\ r.sessions = sessions
            ELSE IF tok \notin StoreTokens
            THEN Unauthenticated(r.res) /\ ~r.next /\ r.sessions = sessions
            ELSE IF Age(tok) > 86400000
            THEN Expired(r.res) /\ ~r.next /\ r.sessions = Without(sessions, tok)
            ELSE /\ r.next
                 /\ r.res.adminSession = Stored(tok)
                 /\ r.sessions = sessions

\* requireAuth has just evicted an expired session while another session,
\* still within its TTL, stays in the store
C1_Witness ==
    /\ last.op = "requireAuth" /\ last.message = "Session expired"
    /\ \E t \in Tokens : lifecycle[t] = "evicted"
    /\ \E t \in StoreTokens : Age(t) <= 86400000

\* C2: after a successful authenticate that returned token t, a
\* requireAuth(t) made before any clock advance, logout or clearAll (t sent
\* as cookie or as header) succeeds, and the session it hands on carries
\* exactly the ip and userAgent given to that authenticate.
C2_AuthenticateThenRequireAuth ==
    \A t \in DOMAIN undisturbed : \A x \in TokenInputs :
        \A r \in {RequireAuth(sessions, t, x, now)}
              \cup {RequireAuth(sessions, f, t, now) : f \in {Undefined, ""}} :
            /\ r.next
            /\ r.res.adminSession.id = t
            /\ r.res.adminSession.ip = undisturbed[t].ip
            /\ r.res.adminSession.userAgent = undisturbed[t].userAgent

\* two logins from different clients, then a requireAuth that succeeded
C2_Witness ==
    /\ last.op = "requireAuth" /\ last.status = 0
    /\ \E t, u \in DOMAIN undisturbed : undisturbed[t].ip # undisturbed[u].ip

\* C3: for every token t of a session in the store, once the clock is past
\* createdAt + TTL a requireAuth(t) yields Expired and the store it leaves no
\* longer lists t; and no listSessions() after that eviction contains t.
C3_ExpiredThenGone ==
    /\ \A t \in StoreTokens : \A x \in TokenInputs :
          now > Stored(t).createdAt + 86400000 =>
              LET r == RequireAuth(sessions, t, x, now)
              IN  /\ Expired(r.res)
                  /\ t \notin ListedIds(GetActiveSessions(r.sessions))
    /\ \A t \in Tokens :
          lifecycle[t] = "evicted" => t \notin ListedIds(GetActiveSessions(sessions))

\* a session was evicted as expired and a later listSessions() has answered
C3_Witness ==
    /\ last.op = "getActiveSessions" /\ last.status = 200
    /\ \E t \in Tokens : lifecycle[t] = "evicted"

\* C4: for every token t requireAuth would accept, logout(t) reports success
\* and a requireAuth(t) after it is Unauthenticated, as is every requireAuth
\* of a logged-out token later on; and logout of an unknown, already removed
\* or absent token reports success and leaves the store unchanged.
C4_LogoutThenUnauthenticated ==
    /\ \A t \in Tokens :
          RequireAuth(sessions, t, Undefined, now).next =>
              LET lo == Logout(sessions, t)
              IN  /\ lo.res.status = 200
                  /\ lo.res.message = "Logged out successfully"
                  /\ Unauthenticated(RequireAuth(lo.sessions, t, Undefined, now).res)
                  /\ Unauthenticated(RequireAuth(lo.sessions, Undefined, t, now).res)
    /\ \A t \in Tokens :
          lifecycle[t] = "loggedOut" =>
              Unauthenticated(RequireAuth(sessions, t, Undefined, now).res)
    /\ \A c \in TokenInputs :
          c \notin StoreTokens =>
              LET lo == Logout(sessions, c)
              IN  /\ lo.res.status = 200
                  /\ lo.res.message = "Logged out successfully"
                  /\ lo.sessions = sessions

\* a session was logged out, another one is still in the store, and the
\* latest request was a logout
C4_Witness ==
    /\ last.op = "logout" /\ last.status = 200
    /\ \E t \in Tokens : lifecycle[t] = "loggedOut"
    /\ sessions # << >>

\* C5: there is no background sweep.  A clock advance removes no session;
\* every session in the store, expired ones included, is returned by
\* listSessions(); and a session leaves the store only by a requireAuth on
\* that same token once it is expired (which removes nothing else), by a
\* logout of that token (which removes nothing else), or by clearAll.
C5_NoBackgroundSweep ==
    /\ [](\A t \in StoreTokens : t \in ListedIds(GetActiveSessions(sessions)))
    /\ [][/\ now' # now => sessions' = sessions
          /\ \A t \in StoreTokens :
                t \notin StoreTokens' =>
                    \/ /\ last'.op = "requireAuth" /\ Expired(last')
                       /\ lifecycle'[t] = "evicted"
                       /\ Age(t) > 86400000
                       /\ sessions' = Without(sessions, t)
                    \/ /\ last'.op = "logout"
                       /\ lifecycle'[t] = "loggedOut"
                       /\ sessions' = Without(sessions, t)
                    \/ /\ last'.op = "clearAllSessions"
                       /\ lifecycle'[t] = "cleared"]_vars

\* requireAuth has just evicted one expired session and another expired
\* session is still in the store
C5_Witness ==
    /\ last.op = "requireAuth" /\ last.message = "Session expired"
    /\ \E t \in StoreTokens : Age(t) > 86400000

\* C6: the lifecycle of a session is one-way.  Once a token was evicted,
\* logged out or cleared it stays so, whatever is done later, and requireAuth
\* never accepts it again; and no step changes the record (createdAt, ip,
\* userAgent) of a session that stays in the store.
C6_NoReturnToCreated ==
    /\ [](\A t \in Tokens :
            lifecycle[t] \in Removed =>
                /\ t \notin StoreTokens
                /\ \A x \in TokenInputs : ~RequireAuth(sessions, t, x, now).next
                /\ \A f \in {Undefined, ""} : ~RequireAuth(sessions, f, t, now).next)
    /\ [][\A t \in Tokens :
            /\ lifecycle[t] \in Removed => lifecycle'[t] = lifecycle[t]
            /\ (t \in StoreTokens /\ t \in StoreTokens') => Stored(t)' = Stored(t)]_vars

\* a token was removed and a later authenticate has succeeded
C6_Witness ==
    /\ last.op = "authenticate" /\ last.status = 200
    /\ \E t \in Tokens : lifecycle[t] \in Removed
    /\ \E t \in StoreTokens : Stored(t).createdAt = now

\* C7: a handler behind the admin guard (dashboard, session info, list
\* sessions, clear all sessions) runs only for a request whose admin_session
\* token is in the store and not older than the TTL when the request is
\* handled; any other request is answered 401 or redirected, reaches no
\* handler, and removes at most its own expired session from the store.
C7_ProtectedNeedsValidSession ==
    \A route \in ProtectedRoutes, c \in TokenInputs, h \in TokenInputs, a \in BOOLEAN :
        LET r == AdminRoute(sessions, route, c, h, a, now)
            valid == c \in StoreTokens /\ Age(c) <= 86400000
            ran == r.res.op \in {"getAdminDashboard", "getSessionInfo",
                                 "getActiveSessions", "clearAllSessions"}
        IN  /\ ran => valid
            /\ ~valid =>
                  /\ ~ran
                  /\ r.res.status \in {401, 302}
                  /\ r.sessions = IF c \in StoreTokens THEN Without(sessions, c)
                                  ELSE sessions

\* session info was served to a valid session while an expired session, whose
\* requests would be refused, sits in the store
C7_Witness ==
    /\ last.op = "getSessionInfo" /\ last.status = 200
    /\ \E t \in StoreTokens : Age(t) > 86400000

\* C8: authenticate with credentials that are not both the configured
\* username and password (a missing one included) is rejected with 400 or
\* 401, returns no token, sets no cookie and leaves the store as it was.
C8_BadCredentialsRejected ==
    \A u \in Usernames, p \in Passwords, c \in Clients, tok \in Tokens \cup {Undefined} :
        ~(u = "admin" /\ p = "admin123") =>
            LET r == Authenticate(sessions, u, p, c.ip, c.userAgent, tok, now)
            IN  /\ r.res.status \in {400, 401}
                /\ r.res.sessionToken = Undefined
                /\ r.res.setCookie = Undefined
                /\ r.sessions = sessions

\* a login with wrong credentials was just refused while a session exists
C8_Witness ==
    /\ last.op = "authenticate" /\ last.status = 401
    /\ sessions # << >>

\* C9: clearAll reports the number of sessions that were in the store just
\* before it (expired ones included) and leaves the store empty, so that
\* requireAuth then rejects every token, the caller's included; the same
\* holds when it is reached through DELETE /api/sessions, and a cleared
\* token is rejected ever after.
C9_ClearAllCountsAndEmpties ==
    /\ LET r == ClearAllSessions(sessions)
       IN  /\ r.res.count = Cardinality(StoreTokens)
           /\ r.sessions = << >>
           /\ \A t \in Tokens, x \in TokenInputs :
                 /\ Unauthenticated(RequireAuth(r.sessions, t, x, now).res)
                 /\ Unauthenticated(RequireAuth(r.sessions, Undefined, t, now).res)
    /\ \A c \in StoreTokens :
          Age(c) <= 86400000 =>
              LET r == AdminRoute(sessions, "DELETE /api/sessions", c, Undefined,
                                  FALSE, now)
              IN  /\ r.res.op = "clearAllSessions"
                  /\ r.res.count = Cardinality(StoreTokens)
                  /\ r.sessions = << >>
                  /\ Unauthenticated(RequireAuth(r.sessions, c, Undefined, now).res)
    /\ \A t \in Tokens :
          lifecycle[t] = "cleared" =>
              Unauthenticated(RequireAuth(sessions, t, Undefined, now).res)

\* clearAll has just removed two sessions at once
C9_Witness ==
    /\ last.op = "clearAllSessions" /\ last.status = 200
    /\ Cardinality({t \in Tokens : lifecycle[t] = "cleared"}) >= 2
    /\ sessions = << >>

\* the store as the set of its session records
Abs(m) == {m[i].value : i \in DOMAIN m}

\* what one operation, run alone on a store S at time t, can leave behind:
\* S itself (a rejected login, any requireAuth that evicts nothing, a list,
\* a logout of no session), S with one new session under an unissued token
\* (authenticate), S less one session (logout, expired-eviction), or nothing
\* (clearAll)
SeqResults(S, t) ==
    {S}
    \cup {S \cup {[id |-> tok, createdAt |-> t, ip |-> c.ip, userAgent |-> c.userAgent]} :
            tok \in {k \in Tokens : lifecycle[k] = "unissued"}, c \in Clients}
    \cup {S \ {x} : x \in S}
    \cup {{}}

MapWellFormed ==
    /\ \A i, j \in DOMAIN sessions : sessions[i].key = sessions[j].key => i = j
    /\ \A i \in DOMAIN sessions : sessions[i].value.id = sessions[i].key

\* C10: with requests in flight concurrently and their handlers run in any
\* order, the session map stays a well-formed map, every step leaves the
\* store that one operation run alone on the store before it would leave,
\* and a session created by authenticate stays in the store until a logout
\* of its token, an eviction of its token once expired, or a clearAll
\* removes it.
C10_AtomicOperations ==
    /\ [](MapWellFormed /\ \A t \in Tokens : lifecycle[t] = "live" <=> t \in StoreTokens)
    /\ [][Abs(sessions') \in SeqResults(Abs(sessions), now)]_vars
    /\ [][\A t \in StoreTokens :
            t \notin StoreTokens' =>
                /\ lifecycle'[t] \in Removed
                /\ lifecycle'[t] = "evicted" => Age(t) > 86400000]_vars

\* two requests are in flight while the store holds a session and another
\* session has been evicted
C10_Witness ==
    /\ InflightCount >= 2
    /\ \E t \in Tokens : lifecycle[t] = "live"
    /\ \E t \in Tokens : lifecycle[t] = "evicted"


\* the responses of a request that requireAuth let through
Accepting ==
    {"getAdminDashboard", "getSessionInfo", "getActiveSessions"}

\* C21: sessions have no sliding renewal.  A requireAuth that succeeds
\* leaves the store as it was, the session's createdAt, ip and userAgent
\* included, and succeeds no later than createdAt + TTL; a session enters
\* the store only by an authenticate, with that authenticate's time as
\* createdAt, and its record never changes while it is stored: so no run of
\* successful requireAuth calls lets a token be accepted later than the TTL
\* after the authenticate that issued it.
C21_NoSlidingRenewal ==
    /\ [](\A c \in TokenInputs, h \in TokenInputs :
            LET r == RequireAuth(sessions, c, h, now)
            IN  r.next =>
                    /\ r.sessions = sessions
                    /\ r.res.adminSession = Stored(Supplied(c, h))
                    /\ now <= Stored(Supplied(c, h)).createdAt + 86400000)
    /\ [][(last'.op = "requireAuth" /\ last'.status = 0) \/ last'.op \in Accepting
              => sessions' = sessions]_vars
    /\ [][\A t \in StoreTokens' :
            IF t \in StoreTokens THEN Stored(t)' = Stored(t)
            ELSE /\ last'.op = "authenticate" /\ last'.status = 200
                 /\ lifecycle[t] = "unissued"
                 /\ Stored(t)'.createdAt = now]_vars

\* requireAuth has just accepted the only session of the store at the last
\* millisecond of its lifetime
C21_Witness ==
    /\ last.op = "requireAuth" /\ last.status = 0
    /\ Cardinality(StoreTokens) = 1
    /\ \A t \in StoreTokens : Age(t) = 86400000


\* the token sent as cookie or, with no cookie, as header
AsCookieOrHeader(t) ==
    {[cookie |-> t, header |-> x] : x \in TokenInputs}
    \cup {[cookie |-> f, header |-> t] : f \in {Undefined, ""}}

\* C22: for a token whose session expired while in the store, requireAuth
\* reports "Session expired" at most once.  The first requireAuth after
\* expiry evicts the session; a second requireAuth on the store it leaves,
\* and every requireAuth on an evicted token later on, reports "Invalid or
\* expired session" (Unauthenticated); and every step in which requireAuth
\* reports "Session expired" evicts a session that was in the store until
\* then, whose token is never stored again.
C22_ExpiredReportedOnce ==
    /\ [](\A t \in StoreTokens : \A a \in AsCookieOrHeader(t), b \in AsCookieOrHeader(t) :
            Age(t) > 86400000 =>
                LET first  == RequireAuth(sessions, a.cookie, a.header, now)
                    second == RequireAuth(first.sessions, b.cookie, b.header, now)
                IN  /\ Expired(first.res)
                    /\ first.sessions = Without(sessions, t)
                    /\ Unauthenticated(second.res) /\ ~Expired(second.res)
                    /\ second.sessions = first.sessions)
    /\ [](\A t \in Tokens : \A a \in AsCookieOrHeader(t) :
            lifecycle[t] = "evicted" =>
                LET r == RequireAuth(sessions, a.cookie, a.header, now)
                IN  /\ t \notin StoreTokens
                    /\ r.res.message = "Invalid or expired session"
                    /\ Unauthenticated(r.res) /\ ~Expired(r.res))
    /\ [][/\ last'.op = "requireAuth" /\ Expired(last') =>
                \E t \in StoreTokens :
                    /\ lifecycle[t] = "live" /\ lifecycle'[t] = "evicted"
                    /\ Age(t) > 86400000
                    /\ sessions' = Without(sessions, t)
          /\ \A t \in Tokens :
                lifecycle[t] = "evicted" =>
                    lifecycle'[t] = "evicted" /\ t \notin StoreTokens']_vars

\* every token was issued and evicted as expired, and requireAuth has then
\* answered a request on one of them with "Invalid or expired session"
C22_Witness ==
    /\ last.op = "requireAuth" /\ last.message = "Invalid or expired session"
    /\ \A t \in Tokens : lifecycle[t] = "evicted"


\* C23: each successful authenticate adds exactly one session, under a token
\* that was never issued before, and leaves every session already in the
\* store as it was: the store grows by exactly one, the earlier sessions keep
\* their records and requireAuth answers their tokens as before, so several
\* valid sessions of the one operator coexist.
C23_LoginAddsOneSession ==
    /\ [](\A c \in Clients, tok \in GenerateSession :
            LET r == Authenticate(sessions, "admin", "admin123", c.ip, c.userAgent,
                                  tok, now)
            IN  /\ r.res.status = 200 /\ r.res.sessionToken = tok
                /\ tok \notin StoreTokens
                /\ MapSize(r.sessions) = MapSize(sessions) + 1
                /\ MapKeys(r.sessions) = StoreTokens \cup {tok}
                /\ MapGet(r.sessions, tok) =
                       [id |-> tok, createdAt |-> now, ip |-> c.ip,
                        userAgent |-> c.userAgent]
                /\ \A t \in StoreTokens :
                       /\ MapGet(r.sessions, t) = Stored(t)
                       /\ RequireAuth(r.sessions, t, Undefined, now).res
                              = RequireAuth(sessions, t, Undefined, now).res)
    /\ [][last'.op = "authenticate" /\ last'.status = 200 =>
              /\ MapSize(sessions') = MapSize(sessions) + 1
              /\ \A t \in StoreTokens : t \in StoreTokens' /\ Stored(t)' = Stored(t)
              /\ \E t \in StoreTokens' :
                     /\ lifecycle[t] = "unissued"
                     /\ StoreTokens' = StoreTokens \cup {t}]_vars

\* a second login has just succeeded while the session of an earlier login,
\* made at another time, is still valid
C23_Witness ==
    /\ last.op = "authenticate" /\ last.status = 200
    /\ \E t \in StoreTokens, u \in StoreTokens :
          /\ Stored(t).createdAt < Stored(u).createdAt
          /\ RequireAuth(sessions, t, Undefined, now).next
          /\ RequireAuth(sessions, u, Undefined, now).next


\* the tokens requireAuth accepts now
ValidTokens == {t \in StoreTokens : Age(t) <= 86400000}

\* C24: requireAuth takes the token from the admin_session cookie when the
\* cookie carries one (a non-empty value) and reads x-admin-session only
\* when it does not.  With a cookie token the header makes no difference; a
\* request whose cookie token is unknown or expired is rejected although its
\* header names a valid session, by requireAuth and behind the admin guard
\* alike, and that session stays in the store, unchanged and still accepted;
\* with no cookie token the header's valid token is accepted.  logout
\* removes the session the cookie names and no other, whatever the header
\* names.
C24_CookieBeforeHeader ==
    /\ \A c \in TokenInputs, h \in TokenInputs :
          Truthy(c) =>
              RequireAuth(sessions, c, h, now) = RequireAuth(sessions, c, Undefined, now)
    /\ \A c \in TokenInputs, h \in ValidTokens :
          LET r == RequireAuth(sessions, c, h, now)
          IN  IF ~Truthy(c)
              THEN r.next /\ r.res.adminSession = Stored(h) /\ r.sessions = sessions
              ELSE c \notin ValidTokens =>
                      /\ ~r.next /\ r.res.status = 401 /\ r.res.token = c
                      /\ r.sessions = IF c \in StoreTokens THEN Without(sessions, c)
                                      ELSE sessions
                      /\ MapGet(r.sessions, h) = Stored(h)
                      /\ RequireAuth(r.sessions, Undefined, h, now).next
    /\ \A h \in ValidTokens : \A c \in TokenInputs \ ValidTokens :
       \A route \in ProtectedRoutes, a \in BOOLEAN :
          LET r == AdminRoute(sessions, route, c, h, a, now)
          IN  /\ r.res.status \in {401, 302}
              /\ MapGet(r.sessions, h) = Stored(h)
              /\ RequireAuth(r.sessions, Undefined, h, now).next
    /\ \A c \in TokenInputs, h \in StoreTokens :
          LET lo == Logout(sessions, c)
          IN  /\ lo.sessions = IF c \in StoreTokens THEN Without(sessions, c)
                               ELSE sessions
              /\ h # c => MapGet(lo.sessions, h) = Stored(h)

\* one token was issued and logged out, requireAuth has just rejected a
\* request that named it, and the other token's session is valid
C24_Witness ==
    /\ last.op = "requireAuth" /\ last.message = "Invalid or expired session"
    /\ \E t \in Tokens : lifecycle[t] = "loggedOut"
    /\ ValidTokens # {}
    /\ \A t \in Tokens : lifecycle[t] \in {"loggedOut", "live"}


(***************************************************************************)
(* The access-key store.  Of its code the repository's utils/keyUtils.js   *)
(* is at hand (getExpirationDate, isKeyValid); the service that creates,   *)
(* validates, revokes and deletes records and the persistence layer behind *)
(* it are modelled from the specification's section 4.1.                   *)
(*                                                                         *)
(* Time is the process clock `now`, in ms.  A Date has a time value (ms,   *)
(* UTC) and reads and sets its hours in the local time of the process's    *)
(* time zone.                                                              *)
(***************************************************************************)

\* how many keys are created
MaxKeys == 1

\* the configured maximum of a key's hours (config.maxKeyHours, MAX_KEY_HOURS)
MaxKeyHours == 2

MAX_KEY_HOURS == MaxKeyHours

HOUR_MS == 60 * 60 * 1000

\* the clock of the key store is followed in steps of half an hour
HALF_HOUR_MS == HOUR_MS \div 2

MaxKeyNow == (MAX_KEY_HOURS + 1) * HOUR_MS

\* The time zones a process may run in: UTC, and a zone with daylight saving
\* time whose clocks go back one hour at FallBackAt (local time is UTC+1
\* before it and UTC after it, as in Europe/London).
TimeZones == {"UTC", "DST"}

FallBackAt == HOUR_MS

\* the offset of local time from UTC at time value t
TzOffset(zone, t) == IF zone = "DST" /\ t < FallBackAt THEN HOUR_MS ELSE 0

\* Date's LocalTime(t)
LocalTime(zone, t) == t + TzOffset(zone, t)

\* Date's UTC(tlocal): a local time that occurs twice is taken as its first
\* occurrence (the offset before the transition)
ToUTC(zone, tlocal) ==
    IF zone = "DST" /\ tlocal - HOUR_MS < FallBackAt THEN tlocal - HOUR_MS
    ELSE tlocal

\* Date.prototype.getHours
GetHours(zone, t) == (LocalTime(zone, t) \div HOUR_MS) % 24

\* a JavaScript value passed as `hours`: its typeof, and for a number whether
\* it is NaN and else its value in half hours (1 is 0.5, 3 is 1.5)
Num(halves) == [type |-> "number", nan |-> FALSE, halves |-> halves]

NaN == [type |-> "number", nan |-> TRUE, halves |-> 0]

NotANumber(type) == [type |-> type, nan |-> FALSE, halves |-> 0]

\* ToIntegerOrInfinity of a number given in half hours: truncation toward zero
Trunc(halves) == IF halves >= 0 THEN halves \div 2 ELSE -((-halves) \div 2)

\* Date.prototype.setHours(hour) on the time value t, hour given in half
\* hours: the local day and the minutes, seconds and ms are kept, the hour
\* is replaced (an hour of 24 or more runs into the following days)
SetHours(zone, t, hourHalves) ==
    LET tlocal == LocalTime(zone, t)
    IN  ToUTC(zone, tlocal - GetHours(zone, t) * HOUR_MS + Trunc(hourHalves) * HOUR_MS)

\* Date.prototype.toISOString: a string of fixed width whose characters are
\* the digits of the date and time from the most significant down (here the
\* nine decimal digits of the time value)
ToISOString(t) == [i \in 1..9 |-> (t \div (10 ^ (9 - i))) % 10]

\* the `>` of two strings: their order at the first character that differs
RECURSIVE StringGreater(_, _)
StringGreater(a, b) ==
    IF a = << >> \/ b = << >> THEN a # << >>
    ELSE IF Head(a) # Head(b) THEN Head(a) > Head(b)
    ELSE StringGreater(Tail(a), Tail(b))

Returned(value) == [threw |-> FALSE, error |-> "", value |-> value]

Threw(error) == [threw |-> TRUE, error |-> error, value |-> << >>]


\* getExpirationDate's argument when none is passed
DEFAULT_HOURS == Num(2 * 24)

GetExpirationDateNoCheck(hours, t, zone) ==
    LET h == IF hours = NotANumber("undefined") THEN DEFAULT_HOURS ELSE hours
    IN  IF h.type # "number" THEN Threw("Hours must be a positive number")
        ELSE IF h.nan THEN Threw("RangeError: Invalid time value")
        ELSE Returned(ToISOString(SetHours(zone, t, 2 * GetHours(zone, t) + h.halves)))

\* keyUtils.getExpirationDate(hours), called at time t in time zone `zone`
GetExpirationDate(hours, t, zone) ==
    LET h == IF hours = NotANumber("undefined") THEN DEFAULT_HOURS ELSE hours
    IN  IF h.type # "number" \/ (~h.nan /\ h.halves <= 0)
        THEN Threw("Hours must be a positive number")
        \* getHours() + NaN is NaN, the Date becomes invalid and toISOString throws
        ELSE IF h.nan THEN Threw("RangeError: Invalid time value")
        ELSE Returned(ToISOString(SetHours(zone, t, 2 * GetHours(zone, t) + h.halves)))

\* what the persistence layer's fetch yields when there is no record
NoKey == [id |-> Undefined, ownerId |-> "", status |-> "",
          createdAt |-> << >>, expires_at |-> << >>]

IsKeyValidAtExpiry(key, t) ==
    IF key = NoKey THEN FALSE
    ELSE key.status = "active" /\ ~StringGreater(ToISOString(t), key.expires_at)

\* keyUtils.isKeyValid(key), called at time t
IsKeyValid(key, t) ==
    IF key = NoKey THEN FALSE
    ELSE key.status = "active" /\ StringGreater(key.expires_at, ToISOString(t))

\* The persistence layer: records by id, in insertion order.
KeyHas(m, id) == \E i \in 1..Len(m) : m[i].id = id

Fetch(m, id) ==
    IF KeyHas(m, id) THEN m[CHOOSE i \in 1..Len(m) : m[i].id = id] ELSE NoKey

Insert(m, record) == Append(m, record)

UpdateStatus(m, id, status) ==
    [i \in 1..Len(m) |-> IF m[i].id = id THEN [m[i] EXCEPT !.status = status]
                         ELSE m[i]]

Remove(m, id) == SelectSeq(m, LAMBDA r : r.id # id)

KeyResult(op, id, outcome) == [op |-> op, id |-> id, outcome |-> outcome]

\* generateKey: a UUID v4, never one handed out before
GenerateKey(count) == "key" \o ToString(count + 1)

KeyIds == {"key" \o ToString(i) : i \in 1..MaxKeys}

\* create(ownerId, ttlHours) at time t, with the fresh id `id`
CreateKey(m, ownerId, ttlHours, id, t, zone) ==
    IF ttlHours.type = "number" /\ ~ttlHours.nan /\ ttlHours.halves > 2 * MAX_KEY_HOURS
    THEN [keys |-> m, res |-> KeyResult("create", Undefined, "InvalidParameter")]
    ELSE LET e == GetExpirationDate(ttlHours, t, zone)
         IN  IF e.threw
             THEN [keys |-> m,
                   res |-> KeyResult("create", Undefined,
                               IF e.error = "Hours must be a positive number"
                               THEN "InvalidParameter" ELSE e.error)]
             ELSE [keys |-> Insert(m, [id |-> id, ownerId |-> ownerId,
                                       status |-> "active",
                                       createdAt |-> ToISOString(t),
                                       expires_at |-> e.value]),
                   res |-> KeyResult("create", id, "Created")]

\* validate(id) at time t
Validate(m, id, t) ==
    LET key == Fetch(m, id)
    IN  KeyResult("validate", id,
            IF key = NoKey THEN "NotFound"
            ELSE IF key.status = "revoked" THEN "Revoked"
            ELSE IF IsKeyValid(key, t) THEN "Valid"
            ELSE "Expired")

\* revoke(id)
Revoke(m, id) ==
    IF KeyHas(m, id)
    THEN [keys |-> UpdateStatus(m, id, "revoked"), res |-> KeyResult("revoke", id, "Revoked")]
    ELSE [keys |-> m, res |-> KeyResult("revoke", id, "NotFound")]

\* delete(id)
DeleteKey(m, id) ==
    IF KeyHas(m, id)
    THEN [keys |-> Remove(m, id), res |-> KeyResult("delete", id, "Deleted")]
    ELSE [keys |-> m, res |-> KeyResult("delete", id, "NotFound")]


\* the values callers pass as ttlHours: from -1 to 1.5 and from the maximum
\* to one hour past it, in steps of half an hour, NaN, a string and null
TtlInputs ==
    {Num(n) : n \in (-2)..3 \cup (2 * MAX_KEY_HOURS)..(2 * MAX_KEY_HOURS + 2)}
        \cup {NaN, NotANumber("string"), NotANumber("object")}

OwnerIds == {"owner1"}

\* the ids callers ask about: every id that may be issued, and one that never is
KeyIdInputs == KeyIds \cup {"key0"}

SessionStoreIdle ==
    /\ sessions = << >>
    /\ lifecycle = [t \in Tokens |-> "unissued"]
    /\ undisturbed = << >>
    /\ last = Brief(Response("init", 0, ""))
    /\ inflight = [k \in RequestKinds |-> 0]

InitKeys ==
    /\ now = 0
    /\ keys = << >>
    /\ keyCount = 0
    /\ tz \in TimeZones
    /\ requested = << >>
    /\ keyLast = KeyResult("none", Undefined, "")
    /\ SessionStoreIdle
    /\ ResolverIdle

KeyCreate ==
    \E ownerId \in OwnerIds, ttlHours \in TtlInputs :
        LET id == GenerateKey(keyCount)
            r  == CreateKey(keys, ownerId, ttlHours, id, now, tz)
            created == r.res.outcome = "Created"
        IN  /\ created => keyCount < MaxKeys
            /\ keys' = r.keys
            /\ keyCount' = IF created THEN keyCount + 1 ELSE keyCount
            /\ requested' = IF created
                            THEN (id :> [ttlHours |-> ttlHours, at |-> now]) @@ requested
                            ELSE requested
            /\ keyLast' = r.res
            /\ UNCHANGED <<now, tz, sessionVars, ipVars>>

KeyValidate ==
    \E id \in KeyIdInputs :
        /\ keyLast' = Validate(keys, id, now)
        /\ UNCHANGED <<now, keys, keyCount, tz, requested, sessionVars, ipVars>>

KeyRevoke ==
    \E id \in KeyIdInputs :
        LET r == Revoke(keys, id)
        IN  /\ keys' = r.keys
            /\ keyLast' = r.res
            /\ UNCHANGED <<now, keyCount, tz, requested, sessionVars, ipVars>>

KeyDelete ==
    \E id \in KeyIdInputs :
        LET r == DeleteKey(keys, id)
        IN  /\ keys' = r.keys
            /\ keyLast' = r.res
            /\ UNCHANGED <<now, keyCount, tz, requested, sessionVars, ipVars>>

\* the process clock advances by half an hour
KeyTick ==
    /\ now + HALF_HOUR_MS <= MaxKeyNow
    /\ now' = now + HALF_HOUR_MS
    /\ UNCHANGED <<keyVars, sessionVars, ipVars>>

NextKeys ==
    \/ KeyCreate
    \/ KeyValidate
    \/ KeyRevoke
    \/ KeyDelete
    \/ KeyTick

SpecKeys == InitKeys /\ [][NextKeys]_vars


(***************************************************************************)
(* The claims about the access-key store.                                  *)
(***************************************************************************)

\* the instant an ISO string stands for, in ms
RECURSIVE InstantOf(_)
InstantOf(iso) ==
    IF iso = << >> THEN 0
    ELSE 10 * InstantOf(SubSeq(iso, 1, Len(iso) - 1)) + iso[Len(iso)]

ExpiresAt(key) == InstantOf(key.expires_at)

CreatedAt(key) == InstantOf(key.createdAt)

\* C11: validate decides in this order: no record, NotFound; status revoked,
\* Revoked, also past expiresAt; else expiresAt <= now, Expired (expiresAt
\* equal to now included); else Valid.  So isKeyValid holds of a key exactly
\* when it exists, is active and expiresAt is strictly later than now.
C11_ValidityDecisionOrder ==
    \A id \in KeyIdInputs :
        LET key     == Fetch(keys, id)
            outcome == Validate(keys, id, now).outcome
        IN  /\ outcome = IF ~KeyHas(keys, id) THEN "NotFound"
                         ELSE IF key.status = "revoked" THEN "Revoked"
                         ELSE IF ExpiresAt(key) <= now THEN "Expired"
                         ELSE "Valid"
            /\ IsKeyValid(key, now) <=>
                   /\ KeyHas(keys, id)
                   /\ key.status = "active"
                   /\ ExpiresAt(key) > now
            /\ (outcome = "Valid") <=> IsKeyValid(key, now)

\* validate has just answered Revoked for a key whose expiresAt equals now
C11_Witness ==
    /\ keyLast.op = "validate"
    /\ keyLast.outcome = "Revoked"
    /\ KeyHas(keys, keyLast.id)
    /\ ExpiresAt(Fetch(keys, keyLast.id)) = now
    /\ CreatedAt(Fetch(keys, keyLast.id)) < now


\* the hours a ttlHours value stands for, in ms
HoursMs(ttlHours) == ttlHours.halves * HALF_HOUR_MS

\* C12: for every key created with ttlHours = h, once the clock has advanced
\* by more than h hours since the creation, validate does not yield Valid for
\* it (and yields Expired while the key is present and active), whatever was
\* done in between.
C12_ExpiredAfterTtl ==
    \A id \in DOMAIN requested :
        now - requested[id].at > HoursMs(requested[id].ttlHours) =>
            LET outcome == Validate(keys, id, now).outcome
            IN  /\ outcome # "Valid"
                /\ KeyHas(keys, id) /\ Fetch(keys, id).status = "active"
                       => outcome = "Expired"


\* ttlHours is zero or negative, is not a number, or is above the maximum
OutOfRange(ttlHours) ==
    \/ ttlHours.type # "number"
    \/ ~ttlHours.nan /\ ttlHours.halves <= 0
    \/ ~ttlHours.nan /\ ttlHours.halves > 2 * MAX_KEY_HOURS

\* C13: create with ttlHours <= 0, with a ttlHours that is not a number, or
\* with ttlHours > MAX_KEY_HOURS fails with InvalidParameter: no expiry is
\* computed and no record is persisted (the value is not clamped into range).
\* NaN, a number by its type, fails too and persists nothing.
C13_BadTtlRejected ==
    \A ownerId \in OwnerIds, ttlHours \in TtlInputs :
        LET r == CreateKey(keys, ownerId, ttlHours, GenerateKey(keyCount), now, tz)
        IN  /\ OutOfRange(ttlHours) =>
                /\ r.res.outcome = "InvalidParameter"
                /\ r.keys = keys
                /\ ttlHours.halves <= 2 * MAX_KEY_HOURS
                       => GetExpirationDate(ttlHours, now, tz).threw
            /\ ttlHours.nan => r.res.outcome # "Created" /\ r.keys = keys

\* a create has just failed with InvalidParameter while the store holds a key,
\* and holds it still
C13_Witness ==
    /\ keyLast.op = "create"
    /\ keyLast.outcome = "InvalidParameter"
    /\ Len(keys) = 1
    /\ keyCount = 1


\* C14: every record that creation accepts has expiresAt > createdAt, so a
\* key validated at the instant of its creation is Valid.
C14_ExpiresAfterCreated ==
    \A i \in 1..Len(keys) :
        /\ ExpiresAt(keys[i]) > CreatedAt(keys[i])
        /\ CreatedAt(keys[i]) = now /\ keys[i].status = "active"
               => Validate(keys, keys[i].id, now).outcome = "Valid"


(***************************************************************************)
(* The client-origin resolver: getClientIp and getIpVariants of            *)
(* utils/keyUtils.js.  A JavaScript string is a sequence of its            *)
(* characters; an index is counted from 0 as in the code.                  *)
(***************************************************************************)

Digits == {"0", "1", "2", "3", "4", "5", "6", "7", "8", "9"}

HexLetters == {"a", "b", "c", "d", "e", "f", "A", "B", "C", "D", "E", "F"}

Whitespace == {" ", "\t"}

DigitValue(c) == CHOOSE i \in 0..9 : ToString(i) = c

UpperCase == <<"A", "B", "C", "D", "E", "F", "G", "H", "I", "J", "K", "L", "M",
               "N", "O", "P", "Q", "R", "S", "T", "U", "V", "W", "X", "Y", "Z">>

LowerCase == <<"a", "b", "c", "d", "e", "f", "g", "h", "i", "j", "k", "l", "m",
               "n", "o", "p", "q", "r", "s", "t", "u", "v", "w", "x", "y", "z">>

\* String.prototype.toLowerCase, of one character and of a string
LowerChar(c) ==
    IF \E i \in 1..26 : UpperCase[i] = c
    THEN LowerCase[CHOOSE i \in 1..26 : UpperCase[i] = c]
    ELSE c

ToLowerCase(str) == [i \in 1..Len(str) |-> LowerChar(str[i])]

\* String.prototype.slice(from, to) for 0 <= from, to
Slice(str, from, to) == SubSeq(str, from + 1, to)

\* String.prototype.startsWith
StartsWith(str, prefix) ==
    Len(str) >= Len(prefix) /\ SubSeq(str, 1, Len(prefix)) = prefix

\* the least of a set of indices, `none` when the set is empty
LeastOr(hits, none) ==
    IF hits = {} THEN none ELSE CHOOSE i \in hits : \A j \in hits : i <= j

\* String.prototype.indexOf(c, from) for a single character c: -1 when absent
IndexOf(str, c, from) == LeastOr({i \in from..(Len(str) - 1) : str[i + 1] = c}, -1)

\* String.prototype.trim
RECURSIVE TrimStart(_)
TrimStart(str) ==
    IF str # << >> /\ Head(str) \in Whitespace THEN TrimStart(Tail(str)) ELSE str

RECURSIVE TrimEnd(_)
TrimEnd(str) ==
    IF str # << >> /\ str[Len(str)] \in Whitespace
    THEN TrimEnd(SubSeq(str, 1, Len(str) - 1)) ELSE str

Trim(str) == TrimEnd(TrimStart(str))

\* String.prototype.split(c) for a single character c
RECURSIVE Split(_, _)
\* the split of str given the index of its first c
SplitAt(str, c, at) ==
    IF at = -1 THEN <<str>>
    ELSE <<Slice(str, 0, at)>> \o Split(Slice(str, at + 1, Len(str)), c)

Split(str, c) == SplitAt(str, c, IndexOf(str, c, 0))

\* str.replace(/"/g, '')
StripQuotes(str) == SelectSeq(str, LAMBDA c : c # "\"")

\* Number(str) of a string of decimal digits, 0 for the empty string; any
\* other string stands for NaN (-1 here)
RECURSIVE NumberOfDigits(_)
NumberOfDigits(str) ==
    IF str = << >> THEN 0
    ELSE 10 * NumberOfDigits(SubSeq(str, 1, Len(str) - 1)) + DigitValue(str[Len(str)])

NumberOf(str) ==
    IF \A i \in 1..Len(str) : str[i] \in Digits THEN NumberOfDigits(str) ELSE -1


(***************************************************************************)
(* net.isIP of Node.js: 4 for a dotted IPv4 address, 6 for an IPv6         *)
(* address, 0 for anything else (zone ids, "%eth0", are not followed).     *)
(***************************************************************************)
IsV4Segment(str) ==
    /\ Len(str) \in 1..3
    /\ \A i \in 1..Len(str) : str[i] \in Digits
    /\ Len(str) > 1 => str[1] # "0"
    /\ NumberOfDigits(str) <= 255

\* four decimal segments
IsV4Parts(parts) == Len(parts) = 4 /\ \A i \in 1..4 : IsV4Segment(parts[i])

IsIPv4(str) == IsV4Parts(Split(str, "."))

IsV6Segment(str) ==
    /\ Len(str) \in 1..4
    /\ \A i \in 1..Len(str) : str[i] \in Digits \cup HexLetters

\* the groups of a colon-separated run: hex groups, the last one possibly a
\* dotted IPv4 address; 0 when the run is malformed, else how many 16-bit
\* groups it stands for
V6GroupsOf(parts, mayEndInV4) ==
    LET n == Len(parts)
    IN  IF \A i \in 1..(n - 1) : IsV6Segment(parts[i])
        THEN IF IsV6Segment(parts[n]) THEN n
             ELSE IF mayEndInV4 /\ IsIPv4(parts[n]) THEN n + 1
             ELSE 0
        ELSE 0

V6Groups(str, mayEndInV4) ==
    IF str = << >> THEN 0 ELSE V6GroupsOf(Split(str, ":"), mayEndInV4)

\* the index of the first "::", -1 when there is none
DoubleColonAt(str) ==
    LeastOr({i \in 0..(Len(str) - 2) : str[i + 1] = ":" /\ str[i + 2] = ":"}, -1)

\* the runs left and right of "::" stand for l and r groups: each run is
\* empty or well formed, and "::" stands for at least one group
IsV6Compressed(left, right, l, r) ==
    /\ left = << >> \/ l > 0
    /\ right = << >> \/ r > 0
    /\ l + r <= 7

IsIPv6(str) ==
    LET at    == DoubleColonAt(str)
        left  == Slice(str, 0, at)
        right == Slice(str, at + 2, Len(str))
    IN  IF at = -1 THEN V6Groups(str, TRUE) = 8
        ELSE IsV6Compressed(left, right, V6Groups(left, FALSE), V6Groups(right, TRUE))

IsIP(str) == IF IsIPv4(str) THEN 4 ELSE IF IsIPv6(str) THEN 6 ELSE 0


\* the string literals of getClientIp
V4_MAPPED_PREFIX == <<":", ":", "f", "f", "f", "f", ":">>

LOOPBACK_V4 == <<"1", "2", "7", ".", "0", ".", "0", ".", "1">>

LOOPBACK_V6 == <<":", ":", "1">>

PREFIX_10 == <<"1", "0", ".">>

PREFIX_192_168 == <<"1", "9", "2", ".", "1", "6", "8", ".">>

PREFIX_FE80 == <<"f", "e", "8", "0", ":">>

UNKNOWN == <<"u", "n", "k", "n", "o", "w", "n">>

\* a header or property the request does not have (`undefined`): no string
Missing == <<"<undefined>">>

EmptyString == << >>

\* JavaScript's a || b on strings
OrElse(a, b) == IF a # EmptyString THEN a ELSE b

NormalizeKeepPort(ip) ==
    IF ip = Missing \/ ip = EmptyString THEN EmptyString
    ELSE LET trimmed == Trim(ip)
             unported ==
                 IF StartsWith(trimmed, <<"[">>)
                 THEN LET end == IndexOf(trimmed, "]", 0)
                      IN  IF end # -1 THEN Slice(trimmed, 1, end) ELSE trimmed
                 ELSE trimmed
         IN  IF StartsWith(unported, V4_MAPPED_PREFIX)
             THEN Slice(unported, Len(V4_MAPPED_PREFIX), Len(unported))
             ELSE unported

\* getClientIp: normalize(ip)
Normalize(ip) ==
    IF ip = Missing \/ ip = EmptyString THEN EmptyString
    ELSE LET trimmed == Trim(ip)
             unported ==
                 IF StartsWith(trimmed, <<"[">>)
                 THEN LET end == IndexOf(trimmed, "]", 0)
                      IN  IF end # -1 THEN Slice(trimmed, 1, end) ELSE trimmed
                 ELSE LET colonIdx == IndexOf(trimmed, ":", 0)
                      IN  IF colonIdx # -1 /\ IndexOf(trimmed, ":", colonIdx + 1) = -1
                          THEN Slice(trimmed, 0, colonIdx)
                          ELSE trimmed
         IN  IF StartsWith(unported, V4_MAPPED_PREFIX)
             THEN Slice(unported, Len(V4_MAPPED_PREFIX), Len(unported))
             ELSE unported

\* getClientIp: isPrivate(ip)
IsPrivate(ip) ==
    LET octets == [i \in 1..Len(Split(ip, ".")) |-> NumberOf(Split(ip, ".")[i])]
        lower  == ToLowerCase(ip)
    IN  \/ ip = EmptyString
        \/ ip = LOOPBACK_V4 \/ ip = LOOPBACK_V6
        \/ StartsWith(ip, PREFIX_10)
        \/ StartsWith(ip, PREFIX_192_168)
        \/ /\ Len(octets) = 4
           /\ \/ octets[1] = 172 /\ octets[2] >= 16 /\ octets[2] <= 31
              \/ octets[1] = 169 /\ octets[2] = 254
        \/ StartsWith(lower, <<"f", "c">>) \/ StartsWith(lower, <<"f", "d">>)
        \/ StartsWith(lower, PREFIX_FE80)

\* the first entry of the list, normalized, that is a valid IP (and, when
\* publicOnly, is not private); the empty string when there is none
AcceptedUnchecked(n, publicOnly) == n # EmptyString /\ (publicOnly => ~IsPrivate(n))

\* the test of the loops: net.isIP(ip), and !isPrivate(ip) in the public one
Accepted(n, publicOnly) == IsIP(n) # 0 /\ (publicOnly => ~IsPrivate(n))

\* the entry at index i, `none` for index 0 (no entry)
EntryOr(list, i, none) == IF i = 0 THEN none ELSE list[i]

\* the first accepted entry of the normalized list, '' when there is none
FirstAccepted(normalized, publicOnly) ==
    EntryOr(normalized,
            LeastOr({i \in 1..Len(normalized) : Accepted(normalized[i], publicOnly)}, 0),
            EmptyString)

FirstNormalized(list, publicOnly) ==
    FirstAccepted([i \in 1..Len(list) |-> Normalize(list[i])], publicOnly)

PickFirstValid(list) == FirstNormalized(list, FALSE)

\* getClientIp: pickFirstPublic(list)
PickFirstPublic(list) ==
    OrElse(FirstNormalized(list, TRUE), FirstNormalized(list, FALSE))


\* the headers getClientIp reads
DirectHeaders == <<"cf-connecting-ip", "true-client-ip", "x-real-ip", "x-client-ip",
                   "fastly-client-ip", "x-cluster-client-ip", "fly-client-ip">>

HeaderNames ==
    {"forwarded", "x-forwarded-for"} \cup {DirectHeaders[i] : i \in 1..Len(DirectHeaders)}

\* p.match(/for=([^;]+)/i): the first group of the leftmost match, Missing
\* when p does not match
ForMatch(p) ==
    LET lower == ToLowerCase(p)
        hits  == {i \in 0..(Len(p) - 5) :
                     /\ Slice(lower, i, i + 4) = <<"f", "o", "r", "=">>
                     /\ p[i + 5] # ";"}
    IN  IF hits = {} THEN Missing
        ELSE LET at   == CHOOSE i \in hits : \A j \in hits : i <= j
                 semi == IndexOf(p, ";", at + 4)
             IN  Slice(p, at + 4, IF semi = -1 THEN Len(p) ELSE semi)

\* the for= tokens of the Forwarded header, quotes removed, in comma order
ForwardedCandidates(headers) ==
    LET fwd == headers["forwarded"]
    IN  IF fwd = Missing \/ fwd = EmptyString THEN << >>
        ELSE LET parts   == Split(fwd, ",")
                 matches == [i \in 1..Len(parts) |-> ForMatch(parts[i])]
                 tokens  == SelectSeq(matches, LAMBDA m : m # Missing)
             IN  [i \in 1..Len(tokens) |-> StripQuotes(tokens[i])]

\* the direct client IP headers that are present, in the order of directHeaders
DirectCandidates(headers) ==
    LET values == [i \in 1..Len(DirectHeaders) |-> headers[DirectHeaders[i]]]
    IN  SelectSeq(values, LAMBDA v : v # Missing)

\* the entries of X-Forwarded-For, trimmed, the empty ones dropped
XffCandidates(headers) ==
    LET xff == headers["x-forwarded-for"]
    IN  IF xff = Missing \/ xff = EmptyString THEN << >>
        ELSE LET parts == Split(xff, ",")
                 ips   == [i \in 1..Len(parts) |-> Trim(parts[i])]
             IN  SelectSeq(ips, LAMBDA e : e # EmptyString)

\* req.ip, req.connection.remoteAddress, req.socket.remoteAddress (the same
\* socket) and req.connection.socket.remoteAddress (no such socket), the
\* falsy ones dropped
Fallbacks(req) ==
    SelectSeq(<<req.ip, req.remoteAddress, req.remoteAddress, Missing>>,
              LAMBDA v : v # Missing /\ v # EmptyString)

CandidatesPeerFirst(req) ==
    Fallbacks(req) \o ForwardedCandidates(req.headers)
        \o DirectCandidates(req.headers) \o XffCandidates(req.headers)

\* getClientIp: candidates
Candidates(req) ==
    ForwardedCandidates(req.headers) \o DirectCandidates(req.headers)
        \o XffCandidates(req.headers) \o Fallbacks(req)

GetClientIpPublicOnly(req) ==
    LET bestPublic == PickFirstPublic(Candidates(req))
        firstValid == FirstNormalized(Candidates(req), FALSE)
    IN  OrElse(OrElse(bestPublic, firstValid), UNKNOWN)

\* keyUtils.getClientIp(req); req.ipPreference is config.ipPreference
GetClientIp(req) ==
    LET bestPublic == PickFirstPublic(Candidates(req))
        firstValid == FirstNormalized(Candidates(req), FALSE)
        chosen     == IF req.ipPreference = "private"
                      THEN OrElse(firstValid, bestPublic)
                      ELSE OrElse(bestPublic, firstValid)
    IN  OrElse(chosen, UNKNOWN)


\* getIpVariants: normalize(ip)
NormalizeV(ip) ==
    IF ip = Missing \/ ip = EmptyString THEN EmptyString
    ELSE LET trimmed == Trim(ip)
             unported ==
                 IF StartsWith(trimmed, <<"[">>)
                 THEN LET end == IndexOf(trimmed, "]", 0)
                      IN  IF end # -1 THEN Slice(trimmed, 1, end) ELSE trimmed
                 ELSE LET colonIdx == IndexOf(trimmed, ":", 0)
                      IN  IF colonIdx # -1 /\ IndexOf(trimmed, ":", colonIdx + 1) = -1
                          THEN Slice(trimmed, 0, colonIdx)
                          ELSE trimmed
         IN  IF StartsWith(unported, V4_MAPPED_PREFIX)
             THEN Slice(unported, Len(V4_MAPPED_PREFIX), Len(unported))
             ELSE unported

\* getIpVariants: isPrivate(ip)
IsPrivateV(ip) ==
    LET o   == [i \in 1..Len(Split(ip, ".")) |-> NumberOf(Split(ip, ".")[i])]
        low == ToLowerCase(ip)
    IN  \/ ip = EmptyString
        \/ ip = LOOPBACK_V4 \/ ip = LOOPBACK_V6
        \/ StartsWith(ip, PREFIX_10) \/ StartsWith(ip, PREFIX_192_168)
        \/ /\ Len(o) = 4
           /\ \/ o[1] = 172 /\ o[2] >= 16 /\ o[2] <= 31
              \/ o[1] = 169 /\ o[2] = 254
        \/ StartsWith(low, <<"f", "c">>) \/ StartsWith(low, <<"f", "d">>)
        \/ StartsWith(low, PREFIX_FE80)

AcceptedV(n, publicOnly) == IsIP(n) # 0 /\ (publicOnly => ~IsPrivateV(n))

FirstAcceptedV(normalized, publicOnly) ==
    EntryOr(normalized,
            LeastOr({i \in 1..Len(normalized) : AcceptedV(normalized[i], publicOnly)}, 0),
            EmptyString)

FirstNormalizedV(list, publicOnly) ==
    FirstAcceptedV([i \in 1..Len(list) |-> NormalizeV(list[i])], publicOnly)

\* getIpVariants: pickFirstPublic(list)
PickFirstPublicV(list) ==
    OrElse(FirstNormalizedV(list, TRUE), FirstNormalizedV(list, FALSE))

\* getIpVariants: candidates
CandidatesV(req) ==
    LET headers == req.headers
        fwd     == headers["forwarded"]
        parts   == IF fwd = Missing \/ fwd = EmptyString THEN << >> ELSE Split(fwd, ",")
        matches == [i \in 1..Len(parts) |-> ForMatch(parts[i])]
        tokens  == SelectSeq(matches, LAMBDA m : m # Missing)
        fors    == [i \in 1..Len(tokens) |-> StripQuotes(tokens[i])]
        direct  == SelectSeq([i \in 1..Len(DirectHeaders) |-> headers[DirectHeaders[i]]],
                             LAMBDA v : v # Missing)
        xff     == headers["x-forwarded-for"]
        entries == IF xff = Missing \/ xff = EmptyString THEN << >> ELSE Split(xff, ",")
        ips     == SelectSeq([i \in 1..Len(entries) |-> Trim(entries[i])],
                             LAMBDA e : e # EmptyString)
        fallbacks == SelectSeq(<<req.ip, req.remoteAddress, req.remoteAddress, Missing>>,
                               LAMBDA v : v # Missing /\ v # EmptyString)
    IN  fors \o direct \o ips \o fallbacks

\* JavaScript's null, as getIpVariants returns it: no string
Null == <<"<null>">>

GetIpVariantsSwapped(req) ==
    [publicIp  |-> OrElse(FirstNormalizedV(CandidatesV(req), FALSE), Null),
     privateIp |-> OrElse(PickFirstPublicV(CandidatesV(req)), Null)]

\* keyUtils.getIpVariants(req)
GetIpVariants(req) ==
    [publicIp  |-> OrElse(PickFirstPublicV(CandidatesV(req)), Null),
     privateIp |-> OrElse(FirstNormalizedV(CandidatesV(req), FALSE), Null)]


\* The addresses the resolver is asked about, as text.
IP_203_0_113_5 == <<"2", "0", "3", ".", "0", ".", "1", "1", "3", ".", "5">>

IP_8_8_8_8 == <<"8", ".", "8", ".", "8", ".", "8">>

IP_9_9_9_9 == <<"9", ".", "9", ".", "9", ".", "9">>

IP_198_51_100_2 == <<"1", "9", "8", ".", "5", "1", ".", "1", "0", "0", ".", "2">>

IP_198_51_100_7 == <<"1", "9", "8", ".", "5", "1", ".", "1", "0", "0", ".", "7">>

IP_11_0_0_1 == <<"1", "1", ".", "0", ".", "0", ".", "1">>

IP_127_0_0_2 == <<"1", "2", "7", ".", "0", ".", "0", ".", "2">>

IP_172_15_0_1 == <<"1", "7", "2", ".", "1", "5", ".", "0", ".", "1">>

IP_172_32_0_1 == <<"1", "7", "2", ".", "3", "2", ".", "0", ".", "1">>

IP_192_169_1_1 == <<"1", "9", "2", ".", "1", "6", "9", ".", "1", ".", "1">>

IP_169_253_1_1 == <<"1", "6", "9", ".", "2", "5", "3", ".", "1", ".", "1">>

IP_10_0_0_5 == <<"1", "0", ".", "0", ".", "0", ".", "5">>

IP_10_0_0_1 == <<"1", "0", ".", "0", ".", "0", ".", "1">>

IP_172_16_0_1 == <<"1", "7", "2", ".", "1", "6", ".", "0", ".", "1">>

IP_172_31_255_255 == <<"1", "7", "2", ".", "3", "1", ".", "2", "5", "5", ".", "2", "5", "5">>

IP_192_168_1_1 == <<"1", "9", "2", ".", "1", "6", "8", ".", "1", ".", "1">>

IP_169_254_1_1 == <<"1", "6", "9", ".", "2", "5", "4", ".", "1", ".", "1">>

IP_127_0_0_1 == <<"1", "2", "7", ".", "0", ".", "0", ".", "1">>

IP_203_0_113_11 == <<"2", "0", "3", ".", "0", ".", "1", "1", "3", ".", "1", "1">>

IP_203_0_113_12 == <<"2", "0", "3", ".", "0", ".", "1", "1", "3", ".", "1", "2">>

IP_203_0_113_13 == <<"2", "0", "3", ".", "0", ".", "1", "1", "3", ".", "1", "3">>

IP_203_0_113_14 == <<"2", "0", "3", ".", "0", ".", "1", "1", "3", ".", "1", "4">>

IP_203_0_113_15 == <<"2", "0", "3", ".", "0", ".", "1", "1", "3", ".", "1", "5">>

IP_203_0_113_16 == <<"2", "0", "3", ".", "0", ".", "1", "1", "3", ".", "1", "6">>

IP_203_0_113_17 == <<"2", "0", "3", ".", "0", ".", "1", "1", "3", ".", "1", "7">>

IP6___1 == <<":", ":", "1">>

IP6___2 == <<":", ":", "2">>

IP6_2001_db8__1 == <<"2", "0", "0", "1", ":", "d", "b", "8", ":", ":", "1">>

IP6_fbff__1 == <<"f", "b", "f", "f", ":", ":", "1">>

IP6_fc00__1 == <<"f", "c", "0", "0", ":", ":", "1">>

IP6_fd12_3456__1 == <<"f", "d", "1", "2", ":", "3", "4", "5", "6", ":", ":", "1">>

IP6_fdff__1 == <<"f", "d", "f", "f", ":", ":", "1">>

IP6_fe00__1 == <<"f", "e", "0", "0", ":", ":", "1">>

IP6_fe7f__1 == <<"f", "e", "7", "f", ":", ":", "1">>

IP6_fe80__1 == <<"f", "e", "8", "0", ":", ":", "1">>

IP6_FE80__1 == <<"F", "E", "8", "0", ":", ":", "1">>

IP6_fe80_1__1 == <<"f", "e", "8", "0", ":", "1", ":", ":", "1">>

IP6_fe90__1 == <<"f", "e", "9", "0", ":", ":", "1">>

IP6_febf__1 == <<"f", "e", "b", "f", ":", ":", "1">>

IP6_fec0__1 == <<"f", "e", "c", "0", ":", ":", "1">>

IP6_fc__1 == <<"f", "c", ":", ":", "1">>

\* an address as text, with what it is: its family (4 or 6) and its leading
\* octets (IPv4: the first two) or its leading 16-bit group (IPv6)
Address(text, family, head) == [text |-> text, family |-> family, head |-> head]

AddressPool ==
    {Address(IP_203_0_113_5, 4, <<203, 0>>),
     Address(IP_8_8_8_8, 4, <<8, 8>>),
     Address(IP_9_9_9_9, 4, <<9, 9>>),
     Address(IP_198_51_100_2, 4, <<198, 51>>),
     Address(IP_198_51_100_7, 4, <<198, 51>>),
     Address(IP_11_0_0_1, 4, <<11, 0>>),
     Address(IP_127_0_0_2, 4, <<127, 0>>),
     Address(IP_172_15_0_1, 4, <<172, 15>>),
     Address(IP_172_32_0_1, 4, <<172, 32>>),
     Address(IP_192_169_1_1, 4, <<192, 169>>),
     Address(IP_169_253_1_1, 4, <<169, 253>>),
     Address(IP_10_0_0_5, 4, <<10, 0>>),
     Address(IP_10_0_0_1, 4, <<10, 0>>),
     Address(IP_172_16_0_1, 4, <<172, 16>>),
     Address(IP_172_31_255_255, 4, <<172, 31>>),
     Address(IP_192_168_1_1, 4, <<192, 168>>),
     Address(IP_169_254_1_1, 4, <<169, 254>>),
     Address(IP_127_0_0_1, 4, <<127, 0>>),
     Address(IP_203_0_113_11, 4, <<203, 0>>),
     Address(IP_203_0_113_12, 4, <<203, 0>>),
     Address(IP_203_0_113_13, 4, <<203, 0>>),
     Address(IP_203_0_113_14, 4, <<203, 0>>),
     Address(IP_203_0_113_15, 4, <<203, 0>>),
     Address(IP_203_0_113_16, 4, <<203, 0>>),
     Address(IP_203_0_113_17, 4, <<203, 0>>),
     Address(IP6___1, 6, <<0>>),
     Address(IP6___2, 6, <<0>>),
     Address(IP6_2001_db8__1, 6, <<8193>>),
     Address(IP6_fbff__1, 6, <<64511>>),
     Address(IP6_fc00__1, 6, <<64512>>),
     Address(IP6_fd12_3456__1, 6, <<64786>>),
     Address(IP6_fdff__1, 6, <<65023>>),
     Address(IP6_fe00__1, 6, <<65024>>),
     Address(IP6_fe7f__1, 6, <<65151>>),
     Address(IP6_fe80__1, 6, <<65152>>),
     Address(IP6_FE80__1, 6, <<65152>>),
     Address(IP6_fe80_1__1, 6, <<65152>>),
     Address(IP6_fe90__1, 6, <<65168>>),
     Address(IP6_febf__1, 6, <<65215>>),
     Address(IP6_fec0__1, 6, <<65216>>),
     Address(IP6_fc__1, 6, <<252>>)}

\* text that is no IP address
NOT_AN_IP == <<"u", "n", "k", "n", "o", "w", "n">>

OBFUSCATED == <<"_", "h", "i", "d", "d", "e", "n">>

PORT_SUFFIX == <<":", "1", "2", "3", "4">>

HTTPS_PORT_SUFFIX == <<":", "4", "4", "3">>

\* How a client or proxy writes an address into a header or the peer address:
\* as it is, with a port, in brackets (with or without a port), as an
\* IPv4-mapped IPv6 address, or with blanks around it.
Styles == {"bare", "port", "bracket", "bracketPort", "mapped", "padded"}

Form(addr, style) == [addr |-> addr, style |-> style]

NoForm == Form(EmptyString, "absent")

Render(form) ==
    CASE form.style = "bare"        -> form.addr
      [] form.style = "port"        -> form.addr \o PORT_SUFFIX
      [] form.style = "bracket"     -> <<"[">> \o form.addr \o <<"]">>
      [] form.style = "bracketPort" -> <<"[">> \o form.addr \o <<"]">> \o HTTPS_PORT_SUFFIX
      [] form.style = "mapped"      -> V4_MAPPED_PREFIX \o form.addr
      [] form.style = "padded"      -> <<" ">> \o form.addr \o <<" ", "\t">>
      [] form.style = "absent"      -> Missing

\* one element of a Forwarded header: for=addr, for="addr", or the for
\* parameter (spelled For) between other parameters
ForwardedElement(el) ==
    CASE el.deco = "plain"  -> <<"f", "o", "r", "=">> \o Render(el.form)
      [] el.deco = "quoted" -> <<"f", "o", "r", "=", "\"">> \o Render(el.form) \o <<"\"">>
      [] el.deco = "params" ->
             <<"b", "y", "=", "_", "x", ";", "F", "o", "r", "=", "\"">>
                 \o Render(el.form)
                 \o <<"\"", ";", "p", "r", "o", "t", "o", "=", "h", "t", "t", "p", "s">>

\* the elements of a list header, joined by a comma and a blank
RECURSIVE JoinList(_)
JoinList(items) ==
    IF items = << >> THEN EmptyString
    ELSE IF Len(items) = 1 THEN items[1]
    ELSE items[1] \o <<",", " ">> \o JoinList(Tail(items))


\* The requests: what each source of the request carries.  Forwarded lists
\* elements, the direct headers are given in the order of DirectHeaders
\* (NoForm: header absent), X-Forwarded-For lists addresses, the peer is the
\* socket's remote address.
Element(addr, style, deco) == [form |-> Form(addr, style), deco |-> deco]

ForwardedPlans ==
    { << >>,
      <<Element(IP_198_51_100_2, "port", "quoted")>>,
      <<Element(IP_10_0_0_5, "bare", "plain"), Element(IP_8_8_8_8, "bare", "params")>>,
      <<Element(IP6_2001_db8__1, "bracketPort", "quoted")>>,
      <<Element(OBFUSCATED, "bare", "plain")>> }

\* the address each direct header carries when it carries a public one
DirectAddress == <<IP_203_0_113_11, IP_203_0_113_12, IP_203_0_113_13, IP_203_0_113_14,
                   IP_203_0_113_15, IP_203_0_113_16, IP_203_0_113_17>>

\* at most two direct headers are present; cf-connecting-ip may carry a
\* private address
DirectPlans ==
    LET present == {S \in SUBSET (1..Len(DirectHeaders)) : Cardinality(S) <= 2}
    IN  {[i \in 1..Len(DirectHeaders) |->
             IF i \in S THEN Form(DirectAddress[i], "bare") ELSE NoForm] : S \in present}
        \cup
        {[i \in 1..Len(DirectHeaders) |->
             IF i = 1 THEN Form(IP_10_0_0_1, "bare")
             ELSE IF i \in S THEN Form(DirectAddress[i], "bare") ELSE NoForm] :
                 S \in {T \in present : 1 \in T}}

XffPlans ==
    { << >>,
      <<Form(IP_203_0_113_5, "bare"), Form(IP_10_0_0_1, "bare")>>,
      <<Form(IP_10_0_0_5, "bare"), Form(IP_8_8_8_8, "bare")>>,
      <<Form(IP_192_168_1_1, "port"), Form(IP6_2001_db8__1, "bracket")>>,
      <<Form(NOT_AN_IP, "bare"), Form(IP_9_9_9_9, "padded")>> }

PeerPlans ==
    { NoForm,
      Form(LOOPBACK_V6, "bare"),
      Form(IP_10_0_0_1, "mapped"),
      Form(IP_198_51_100_7, "bare") }

IpPreferences == {"public", "private"}

Plans ==
    [forwarded : ForwardedPlans, direct : DirectPlans, xff : XffPlans,
     peer : PeerPlans, ipPreference : IpPreferences]

\* the request a plan stands for, as Express hands it to getClientIp
RequestOf(plan) ==
    [plan |-> plan,
     headers |->
         [h \in HeaderNames |->
             IF h = "forwarded"
             THEN IF plan.forwarded = << >> THEN Missing
                  ELSE JoinList([i \in 1..Len(plan.forwarded) |->
                                    ForwardedElement(plan.forwarded[i])])
             ELSE IF h = "x-forwarded-for"
             THEN IF plan.xff = << >> THEN Missing
                  ELSE JoinList([i \in 1..Len(plan.xff) |-> Render(plan.xff[i])])
             ELSE Render(plan.direct[CHOOSE i \in 1..Len(DirectHeaders) :
                                         DirectHeaders[i] = h])],
     ip |-> Render(plan.peer),
     remoteAddress |-> Render(plan.peer),
     ipPreference |-> plan.ipPreference]

IpResult(op, ip, variants) ==
    [op |-> op, ip |-> ip, publicIp |-> variants.publicIp, privateIp |-> variants.privateIp]

NoVariants == [publicIp |-> Null, privateIp |-> Null]

InitIp ==
    /\ ipReq \in {RequestOf(plan) : plan \in Plans}
    /\ ipRes = IpResult("none", EmptyString, NoVariants)
    /\ now = 0
    /\ SessionStoreIdle
    /\ KeyStoreIdle

\* GET /ip: the resolver is applied to the request
ResolveClientIp ==
    /\ ipRes' = IpResult("getClientIp", GetClientIp(ipReq), NoVariants)
    /\ UNCHANGED <<ipReq, now, sessionVars, keyVars>>

\* the diagnostic operation is applied to the request
ResolveIpVariants ==
    /\ ipRes' = IpResult("getIpVariants", EmptyString, GetIpVariants(ipReq))
    /\ UNCHANGED <<ipReq, now, sessionVars, keyVars>>

NextIp ==
    \/ ResolveClientIp
    \/ ResolveIpVariants

SpecIp == InitIp /\ [][NextIp]_vars


(***************************************************************************)
(* The claims about the resolver.                                          *)
(***************************************************************************)

\* the candidates of the request as getClientIp collects them, normalized
NormalizedCandidates(req) ==
    [i \in 1..Len(Candidates(req)) |-> Normalize(Candidates(req)[i])]

\* the first entry of the list that satisfies ok, `none` when no entry does
FirstThat(list, ok(_), none) ==
    EntryOr(list, LeastOr({i \in 1..Len(list) : ok(list[i])}, 0), none)

ValidIp(ip) == IsIP(ip) # 0

ValidPublicIp(ip) == IsIP(ip) # 0 /\ ~IsPrivate(ip)

NoHeaders(req) == \A h \in HeaderNames : req.headers[h] = Missing

\* C15: with preferPrivate off the resolver returns the first candidate in
\* priority order that is a valid IP and classified public; when there is
\* none, the first valid candidate of any class (a lone loopback peer "::1"
\* gives "::1"); when no candidate is a valid IP, "unknown".
C15_PublicFirstThenValid ==
    ipRes.op = "getClientIp" /\ ipReq.ipPreference = "public" =>
        LET list == NormalizedCandidates(ipReq)
        IN  /\ ipRes.ip =
                   IF \E i \in 1..Len(list) : ValidPublicIp(list[i])
                   THEN FirstThat(list, ValidPublicIp, UNKNOWN)
                   ELSE FirstThat(list, ValidIp, UNKNOWN)
            /\ NoHeaders(ipReq) /\ ipReq.ip = LOOPBACK_V6 => ipRes.ip = LOOPBACK_V6

\* the resolver has answered with a private address that stands behind an
\* invalid candidate, no candidate being public
C15_Witness ==
    /\ ipRes.op = "getClientIp"
    /\ ipReq.ipPreference = "public"
    /\ ipReq.plan.forwarded = <<Element(OBFUSCATED, "bare", "plain")>>
    /\ ipReq.plan.xff = << >>
    /\ \A i \in 1..Len(DirectHeaders) : ipReq.plan.direct[i] = NoForm
    /\ ipReq.plan.peer = Form(LOOPBACK_V6, "bare")
    /\ ipRes.ip = LOOPBACK_V6


\* the addresses the request's headers carry, by source: the Forwarded
\* elements, the direct headers in their fixed order, the X-Forwarded-For
\* entries
HeaderAddresses(plan) ==
    LET present == SelectSeq(plan.direct, LAMBDA f : f # NoForm)
    IN  [i \in 1..Len(plan.forwarded) |-> plan.forwarded[i].form.addr]
            \o [i \in 1..Len(present) |-> present[i].addr]
            \o [i \in 1..Len(plan.xff) |-> plan.xff[i].addr]

PeerAddress(plan) == IF plan.peer = NoForm THEN << >> ELSE <<plan.peer.addr>>

NoDirectHeader(plan) == \A i \in 1..Len(DirectHeaders) : plan.direct[i] = NoForm

\* C16: the candidates are, in this order, the for= tokens of Forwarded (in
\* comma order), the direct headers cf-connecting-ip, true-client-ip,
\* x-real-ip, x-client-ip, fastly-client-ip, x-cluster-client-ip,
\* fly-client-ip, the X-Forwarded-For entries left to right, and last the peer
\* address; so of several valid public addresses the one of the earliest
\* source wins and the peer address never displaces a header's.
C16_CandidatePriorityOrder ==
    ipRes.op = "getClientIp" =>
        LET plan    == ipReq.plan
            headers == HeaderAddresses(plan)
            n       == Len(headers)
            list    == NormalizedCandidates(ipReq)
        IN  /\ DirectHeaders = <<"cf-connecting-ip", "true-client-ip", "x-real-ip",
                                 "x-client-ip", "fastly-client-ip",
                                 "x-cluster-client-ip", "fly-client-ip">>
            /\ Len(list) >= n /\ SubSeq(list, 1, n) = headers
            /\ \A i \in (n + 1)..Len(list) : <<list[i]>> = PeerAddress(plan)
            /\ Len(list) > n <=> plan.peer # NoForm
            /\ ipReq.ipPreference = "public"
                   /\ (\E i \in 1..Len(list) : ValidPublicIp(list[i]))
                   => ipRes.ip = FirstThat(headers \o PeerAddress(plan), ValidPublicIp, UNKNOWN)
            /\ ipReq.ipPreference = "public" /\ plan.forwarded = << >>
                   /\ NoDirectHeader(plan)
                   /\ plan.xff = <<Form(IP_203_0_113_5, "bare"), Form(IP_10_0_0_1, "bare")>>
                   => ipRes.ip = IP_203_0_113_5

\* Forwarded, two direct headers, X-Forwarded-For and the peer all carry a
\* valid public address, and the resolver has answered with Forwarded's
C16_Witness ==
    /\ ipRes.op = "getClientIp"
    /\ ipReq.ipPreference = "public"
    /\ ipReq.plan.forwarded = <<Element(IP_198_51_100_2, "port", "quoted")>>
    /\ ipReq.plan.direct[3] # NoForm /\ ipReq.plan.direct[7] # NoForm
    /\ ipReq.plan.xff = <<Form(IP_203_0_113_5, "bare"), Form(IP_10_0_0_1, "bare")>>
    /\ ipReq.plan.peer = Form(IP_198_51_100_7, "bare")
    /\ ipRes.ip = IP_198_51_100_2


\* C17: with preferPrivate on the resolver returns the first candidate in
\* priority order that is a valid IP, private or public, also when a later
\* candidate is public (candidates "10.0.0.5", "8.8.8.8" give "10.0.0.5"); it
\* returns "unknown" only when no candidate is a valid IP.
C17_PreferPrivateFirstValid ==
    ipRes.op = "getClientIp" /\ ipReq.ipPreference = "private" =>
        LET list == NormalizedCandidates(ipReq)
        IN  /\ ipRes.ip = FirstThat(list, ValidIp, UNKNOWN)
            /\ ipRes.ip = UNKNOWN <=> \A i \in 1..Len(list) : ~ValidIp(list[i])
            /\ ipReq.plan.forwarded = << >> /\ NoDirectHeader(ipReq.plan)
                   /\ ipReq.plan.xff = <<Form(IP_10_0_0_5, "bare"), Form(IP_8_8_8_8, "bare")>>
                   => ipRes.ip = IP_10_0_0_5

\* with preferPrivate on the resolver has answered "10.0.0.5" for the
\* candidates "10.0.0.5", "8.8.8.8" and a public peer
C17_Witness ==
    /\ ipRes.op = "getClientIp"
    /\ ipReq.ipPreference = "private"
    /\ ipReq.plan.forwarded = << >>
    /\ NoDirectHeader(ipReq.plan)
    /\ ipReq.plan.xff = <<Form(IP_10_0_0_5, "bare"), Form(IP_8_8_8_8, "bare")>>
    /\ ipReq.plan.peer = Form(IP_198_51_100_7, "bare")
    /\ ipRes.ip = IP_10_0_0_5


(***************************************************************************)
(* One candidate at a time: normalize and isPrivate applied to every       *)
(* address of the pool in every form, and getClientIp applied to the       *)
(* request whose only candidate is that form, as Forwarded: for="...".     *)
(***************************************************************************)
TextPool ==
    AddressPool \cup {Address(NOT_AN_IP, 0, <<0>>), Address(OBFUSCATED, 0, <<0>>)}

\* the forms a text is written in
StylesOf(address) ==
    IF address.family = 4 THEN Styles
    ELSE IF address.family = 6 THEN {"bare", "bracket", "bracketPort", "padded"}
    ELSE {"bare", "port", "padded"}

CandidateInputs ==
    {[address |-> a, form |-> Form(a.text, st)] : a \in TextPool, st \in Styles}

\* the request that carries the form in its Forwarded header and nothing else
ForwardedOnly(form) ==
    RequestOf([forwarded |-> <<[form |-> form, deco |-> "quoted"]>>,
               direct |-> [i \in 1..Len(DirectHeaders) |-> NoForm],
               xff |-> << >>,
               peer |-> NoForm,
               ipPreference |-> "public"])

CandidateResult(op, ip, private) == [op |-> op, ip |-> ip, private |-> private]

InitCandidate ==
    /\ ipReq \in {in \in CandidateInputs : in.form.style \in StylesOf(in.address)}
    /\ ipRes = CandidateResult("none", EmptyString, FALSE)
    /\ now = 0
    /\ SessionStoreIdle
    /\ KeyStoreIdle

NormalizeCandidate ==
    /\ ipRes' = CandidateResult("normalize", Normalize(Render(ipReq.form)), FALSE)
    /\ UNCHANGED <<ipReq, now, sessionVars, keyVars>>

ClassifyCandidate ==
    /\ ipRes' = CandidateResult("isPrivate", Normalize(Render(ipReq.form)),
                                IsPrivate(Normalize(Render(ipReq.form))))
    /\ UNCHANGED <<ipReq, now, sessionVars, keyVars>>

ResolveCandidate ==
    /\ ipRes' = CandidateResult("getClientIp", GetClientIp(ForwardedOnly(ipReq.form)), FALSE)
    /\ UNCHANGED <<ipReq, now, sessionVars, keyVars>>

NextCandidate ==
    \/ NormalizeCandidate
    \/ ClassifyCandidate
    \/ ResolveCandidate

SpecCandidate == InitCandidate /\ [][NextCandidate]_vars

\* C18: a candidate is normalized before it is validated and classified:
\* blanks trimmed, [addr]:port reduced to addr, else a value with exactly one
\* colon cut at the colon (IPv4:port to IPv4) and a value with more colons
\* left as it is, a leading ::ffff: removed.  So Forwarded:
\* for="198.51.100.2:1234" resolves to "198.51.100.2" and an IPv4-mapped
\* private address is classified as its IPv4 form.
C18_NormalizedBeforeUse ==
    LET addr == ipReq.address.text
    IN  /\ ipRes.op \in {"normalize", "isPrivate"} => ipRes.ip = addr
        /\ ipRes.op = "isPrivate" => ipRes.private = IsPrivate(addr)
        /\ ipRes.op = "getClientIp" =>
               ipRes.ip = IF ipReq.address.family # 0 THEN addr ELSE UNKNOWN
        /\ ipRes.op = "getClientIp" /\ ipReq.form = Form(IP_198_51_100_2, "port")
               => ipRes.ip = IP_198_51_100_2
        /\ ipRes.op = "isPrivate" /\ ipReq.form = Form(IP_10_0_0_1, "mapped")
               => ipRes.private /\ ipRes.ip = IP_10_0_0_1

\* the resolver has answered "198.51.100.2" for Forwarded: for="198.51.100.2:1234"
C18_Witness ==
    /\ ipRes.op = "getClientIp"
    /\ ipReq.form = Form(IP_198_51_100_2, "port")
    /\ ForwardedOnly(ipReq.form).headers["forwarded"] =
           <<"f", "o", "r", "=", "\"">> \o IP_198_51_100_2 \o PORT_SUFFIX \o <<"\"">>
    /\ ipRes.ip = IP_198_51_100_2

\* what the address is, by its leading octets or group: loopback, IPv4
\* 10.0.0.0/8, 172.16.0.0/12, 192.168.0.0/16, 169.254.0.0/16, IPv6 fc00::/7
\* (groups fc00 to fdff), fe80::/10 (groups fe80 to febf)
PrivateOrReserved(address) ==
    \/ address.text = LOOPBACK_V4 \/ address.text = LOOPBACK_V6
    \/ /\ address.family = 4
       /\ \/ address.head[1] = 10
          \/ address.head[1] = 172 /\ address.head[2] \in 16..31
          \/ address.head[1] = 192 /\ address.head[2] = 168
          \/ address.head[1] = 169 /\ address.head[2] = 254
    \/ /\ address.family = 6
       /\ \/ address.head[1] \in 64512..65023
          \/ address.head[1] \in 65152..65215

\* C19: a normalized address is classified private exactly when it is
\* loopback (127.0.0.1, ::1), in 10.0.0.0/8, 172.16.0.0/12, 192.168.0.0/16 or
\* 169.254.0.0/16, or in fc00::/7 or fe80::/10 (first group fe80 through
\* febf); every other valid address is classified public.
C19_ClassifiedByRange ==
    ipRes.op = "isPrivate" /\ ipReq.address.family # 0 =>
        /\ IsIP(ipRes.ip) = ipReq.address.family
        /\ ipRes.private <=> PrivateOrReserved(ipReq.address)


\* what the resolver returns for a result of the diagnostic operation
OrUnknown(ip) == IF ip = Null THEN UNKNOWN ELSE ip

\* C20: getIpVariants and getClientIp agree on every request: with
\* preferPrivate off the resolver's answer is the diagnostic's publicIp, with
\* preferPrivate on its privateIp, and the resolver answers "unknown" exactly
\* when the diagnostic reports null for both.
C20_VariantsAgreeWithResolver ==
    ipRes.op = "getIpVariants" =>
        LET resolved == GetClientIp(ipReq)
        IN  /\ ipReq.ipPreference = "public" => resolved = OrUnknown(ipRes.publicIp)
            /\ ipReq.ipPreference = "private" => resolved = OrUnknown(ipRes.privateIp)
            /\ resolved = UNKNOWN <=> ipRes.publicIp = Null /\ ipRes.privateIp = Null

\* the diagnostic operation has reported two different addresses, and the
\* resolver, preferring private, answers the first valid one
C20_Witness ==
    /\ ipRes.op = "getIpVariants"
    /\ ipReq.ipPreference = "private"
    /\ ipRes.publicIp # Null /\ ipRes.privateIp # Null
    /\ ipRes.publicIp # ipRes.privateIp
    /\ GetClientIp(ipReq) = ipRes.privateIp

\* the characters of a string
Chars(str) == {str[i] : i \in 1..Len(str)}

\* C25: for every request and either preference the resolver's result is
\* "unknown" or the normalized form of one of the collected candidates that
\* is a syntactically valid IP: never the empty string, never a value with
\* brackets or a port left on it, and always an address that the request's
\* headers or its peer address carry.
C25_ResultIsCandidateOrUnknown ==
    ipRes.op = "getClientIp" =>
        LET list    == NormalizedCandidates(ipReq)
            carried == HeaderAddresses(ipReq.plan) \o PeerAddress(ipReq.plan)
        IN  /\ ipRes.ip # EmptyString
            /\ ipRes.ip # UNKNOWN =>
                   /\ IsIP(ipRes.ip) # 0
                   /\ \E i \in 1..Len(list) : list[i] = ipRes.ip
                   /\ \E i \in 1..Len(carried) : carried[i] = ipRes.ip
                   /\ Chars(ipRes.ip) \cap {"[", "]", " ", "\t", "\""} = {}
                   /\ IsIP(ipRes.ip) = 4 => ":" \notin Chars(ipRes.ip)
            /\ ipRes.ip = UNKNOWN => \A i \in 1..Len(list) : IsIP(list[i]) = 0

\* the only candidate came quoted, in brackets and with a port, and the
\* resolver has answered the bare address
C25_Witness ==
    /\ ipRes.op = "getClientIp"
    /\ ipReq.plan.forwarded = <<Element(IP6_2001_db8__1, "bracketPort", "quoted")>>
    /\ NoDirectHeader(ipReq.plan)
    /\ ipReq.plan.xff = << >>
    /\ ipReq.plan.peer = NoForm
    /\ ipRes.ip = IP6_2001_db8__1

=============================================================================
